---- MODULE Spec2Model ----
(***************************************************************************)
(* Mob movement, collision resolution, separation and chase AI of the      *)
(* action RPG (src/src/entity.cpp, src/include/entity.h, src/src/game.cpp).*)
(*                                                                         *)
(* Numbers are fixed point: one unit of the model is 1/1000 of a world     *)
(* unit (lengths), of a second (deltaTime) or of 1.0 (factors).  A float   *)
(* product a*b is TDiv(a*b, Scale); a float quotient a/b is                *)
(* TDiv(a*Scale, b); results are truncated toward zero.  glm::vec3 is a    *)
(* triple <<x, y, z>>.  IEEE NaN is kept: NaNS is the NaN scalar, NaNVec   *)
(* the vector glm::normalize returns for the zero vector; arithmetic       *)
(* propagates it and every comparison with it is false.                    *)
(***************************************************************************)
EXTENDS Integers, Sequences, FiniteSets, TLC

Scale == 10 ^ 3

\* ----------------------------------------------------------------- floats
NaNS == -(2 ^ 30)
NaNVec == <<NaNS, NaNS, NaNS>>
FltMax == 2 ^ 30

IsNaN(a) == a = NaNS
IsNaNV(v) == v[1] = NaNS \/ v[2] = NaNS \/ v[3] = NaNS

FLt(a, b) == ~IsNaN(a) /\ ~IsNaN(b) /\ a < b
FGt(a, b) == ~IsNaN(a) /\ ~IsNaN(b) /\ a > b
FGe(a, b) == ~IsNaN(a) /\ ~IsNaN(b) /\ a >= b

Abs(a) == IF a < 0 THEN -a ELSE a
TDiv(a, b) == IF a >= 0 THEN a \div b ELSE -((-a) \div b)

FMul(a, b) == IF IsNaN(a) \/ IsNaN(b) THEN NaNS ELSE TDiv(a * b, Scale)
FDiv(a, b) == IF IsNaN(a) \/ IsNaN(b) \/ b = 0 THEN NaNS ELSE TDiv(a * Scale, b)

RECURSIVE SqrtIter(_, _, _)
SqrtIter(n, lo, hi) ==
    IF lo >= hi THEN lo
    ELSE LET mid == (lo + hi + 1) \div 2
         IN IF mid * mid <= n THEN SqrtIter(n, mid, hi)
                              ELSE SqrtIter(n, lo, mid - 1)

\* floor of the square root; 46340 is the largest root of a 32-bit square.
ISqrt(n) == SqrtIter(n, 0, 46340)

\* ------------------------------------------------------------------- vec3
Zero3 == <<0, 0, 0>>
Up3 == <<0, Scale, 0>>

VAdd(a, b) ==
    IF IsNaNV(a) \/ IsNaNV(b) THEN NaNVec
    ELSE <<a[1] + b[1], a[2] + b[2], a[3] + b[3]>>
VSub(a, b) ==
    IF IsNaNV(a) \/ IsNaNV(b) THEN NaNVec
    ELSE <<a[1] - b[1], a[2] - b[2], a[3] - b[3]>>
VNeg(a) == IF IsNaNV(a) THEN NaNVec ELSE <<-a[1], -a[2], -a[3]>>

\* vec3 * float
VScale(v, s) ==
    IF IsNaNV(v) \/ IsNaN(s) THEN NaNVec
    ELSE <<TDiv(v[1] * s, Scale), TDiv(v[2] * s, Scale), TDiv(v[3] * s, Scale)>>

\* vec3 / float; dividing by zero gives inf or NaN, which no caller reaches
\* (every division of the source is guarded by distance > 0.001).
VDivS(v, s) ==
    IF IsNaNV(v) \/ IsNaN(s) \/ s = 0 THEN NaNVec
    ELSE <<TDiv(v[1] * Scale, s), TDiv(v[2] * Scale, s), TDiv(v[3] * Scale, s)>>

\* vec3 / int (separationForce /= nearbyCount)
VDivN(v, n) ==
    IF IsNaNV(v) THEN NaNVec ELSE <<TDiv(v[1], n), TDiv(v[2], n), TDiv(v[3], n)>>

\* glm::length
Length(v) ==
    IF IsNaNV(v) THEN NaNS
    ELSE ISqrt(v[1] * v[1] + v[2] * v[2] + v[3] * v[3])

\* glm::dot
Dot(a, b) ==
    IF IsNaNV(a) \/ IsNaNV(b) THEN NaNS
    ELSE TDiv(a[1] * b[1] + a[2] * b[2] + a[3] * b[3], Scale)

\* glm::cross
Cross(a, b) ==
    IF IsNaNV(a) \/ IsNaNV(b) THEN NaNVec
    ELSE <<TDiv(a[2] * b[3] - a[3] * b[2], Scale),
           TDiv(a[3] * b[1] - a[1] * b[3], Scale),
           TDiv(a[1] * b[2] - a[2] * b[1], Scale)>>

\* glm::normalize: v * inversesqrt(dot(v, v)); the zero vector gives
\* 0 * inf = NaN in every component.
Normalize(v) ==
    IF IsNaNV(v) \/ Length(v) = 0 THEN NaNVec ELSE VDivS(v, Length(v))

\* normalize(v) * s computed in one rounding: v * s / |v|.
ScaleTo(v, s) ==
    IF IsNaNV(v) \/ IsNaN(s) \/ Length(v) = 0 THEN NaNVec
    ELSE LET len == Length(v)
         IN <<TDiv(v[1] * s, len), TDiv(v[2] * s, len), TDiv(v[3] * s, len)>>

\* glm::clamp
Clamp(x, lo, hi) == IF x < lo THEN lo ELSE IF x > hi THEN hi ELSE x

Max(a, b) == IF a > b THEN a ELSE b


\* -------------------------------------------------------------- constants
DefaultRadius == 500
DefaultSpeed == 5000
EnemySpeed == 3000
ArriveEps == 100
CoincideEps == 1
SlideFactor == 700
PreferredFactor == 1200
SeparationSpeed == 2000
SteerEps == 10
LookAhead == 500
SteerBuffer == 300
PerpWeight == 800
PushWeight == 200
SeekWeight == 300
MaxAvoidWeight == 3000
MinAvoidRadius == 3000
AvoidSpeedFactor == 800
EngageGap == 1000
BackAwayFactor == 700
BackAwaySpeed == 500

\* ------------------------------------------------------------------ state
\* Entity handles.  1 and 2 are PlayerEntity objects, 3 is a
\* BasicShooterEnemy; Null is the empty shared_ptr.
Null == 0
Players == {1, 2}
Enemies == {3}
Ents == Players \cup Enemies

VARIABLES
    ent,        \* ent[e]: the fields of entity e
    entities,   \* EntityManager::entities, in insertion order
    party,      \* Game::party, the list every enemy's party pointer refers to
    last,       \* the last call: [op, who, dt, chosen, cmd, rep, stops]; chosen
                \* and cmd are the target and command of an enemy's update, rep
                \* counts a repeated stop(), stops the stop() calls on who
                \* right before this call
    travel,     \* travel[e]: where e stood at its last moveTo, and the
                \* deltaTime its update has been given since
    frames,     \* number of update / updateAll calls so far
    cmds,       \* number of other calls so far
    audio,      \* the AudioManager: its members, the sources OpenAL has
                \* generated, and the last call with its return value
    search,     \* the waypoint search in progress: its inputs, ring, pass
                \* and result
    input,      \* the InputManager's right-button state, Game's
                \* activePlayerIndex, and the party members sent somewhere
                \* since the button went down
    voxel       \* a VoxelModel: its voxels, its mesh and the last call on it

vars == <<ent, entities, party, last, travel, frames, cmds, audio, search,
          input, voxel>>

\* AudioManager::AudioManager(): nothing initialized, loaded or allocated.
\* generated is the number of sources alGenSources has handed out (their ids
\* are 1..generated), issued the ids playSound has returned; op, arg, genOK,
\* playOK and ret are the last call, its argument, whether OpenAL's
\* alGenSources and alSourcePlay succeeded in it, and its return value (a
\* bool as 0 or 1); ops is the number of calls.
NewAudioManager ==
    [m_initialized |-> FALSE, m_soundBuffers |-> {}, m_activeSources |-> <<>>,
     m_availableSources |-> <<>>, generated |-> 0, issued |-> {},
     op |-> "new", arg |-> 0, genOK |-> TRUE, playOK |-> TRUE, ret |-> 0,
     ops |-> 0]

\* No waypoint search has been asked for.
NoSearch == [phase |-> "idle"]

\* InputManager::InputManager() and Game::Game(): button up, no edge, party
\* member 0 active.  moved is the set of party members that received a moveTo
\* since the right button last went down.
NoInput ==
    [rightMouseDown |-> FALSE, prevRightMouseDown |-> FALSE,
     rightMousePressed |-> FALSE, rightMouseReleased |-> FALSE,
     activePlayerIndex |-> 0, moved |-> {}]

\* VoxelModel::VoxelModel(): no voxel, no mesh.  voxels maps the stored
\* positions to the alpha of their colour; op is the last call.
NewVoxelModel ==
    [voxels |-> <<>>, vertices |-> <<>>, indices |-> <<>>,
     meshGenerated |-> FALSE, op |-> "new", arg |-> <<>>, ops |-> 0]

\* An entity freshly constructed (entity.h:18-25, 37-50, 86) and placed.
NewEntity(pos, spd, hasParty) ==
    [position |-> pos, active |-> TRUE, radius |-> DefaultRadius,
     movementSpeed |-> spd, targetPosition |-> Zero3, isMoving |-> FALSE,
     entityManager |-> FALSE, party |-> hasParty]

Distance(w, a, b) == Length(VSub(w[a].position, w[b].position))

\* ------------------------------------------------------------- MobEntity
moveTo(s, target) == [s EXCEPT !.targetPosition = target, !.isMoving = TRUE]

\* stop() that forgets to clear isMoving.
stop_keepsMoving(s) == s

\* stop() that also collapses the collision circle.
stop_dropsRadius(s) == [s EXCEPT !.isMoving = FALSE, !.radius = 0]

stop(s) == [s EXCEPT !.isMoving = FALSE]

\* The neighbours a scan of the registry visits: every entry that is not
\* this entity and is active (all entities of the model are MobEntity, so the
\* dynamic cast succeeds).  A NaN distance fails every later comparison.
\* The scan without the active test.
Others_seesInactive(w, reg, e) == SelectSeq(reg, LAMBDA o : o # e)

Others(w, reg, e) == SelectSeq(reg, LAMBDA o : o # e /\ w[o].active)

\* One iteration of the "process collisions with sliding" loop.
slideStep(w, e, o, movement, finalPosition) ==
    LET toOther == VSub(w[o].position, finalPosition)
        currentDist == Length(toOther)
        minDistance == w[e].radius + w[o].radius
    IN  IF FLt(currentDist, minDistance) /\ FGt(currentDist, CoincideEps)
        THEN LET collisionNormal == VNeg(VDivS(toOther, currentDist))
                 slideDirection ==
                     VSub(movement,
                          VScale(collisionNormal, Dot(movement, collisionNormal)))
                 slid == VAdd(w[e].position, VScale(slideDirection, SlideFactor))
                 afterSlideToOther == VSub(w[o].position, slid)
                 afterSlideDist == Length(afterSlideToOther)
             IN  IF FLt(afterSlideDist, minDistance)
                    /\ FGt(afterSlideDist, CoincideEps)
                 THEN VSub(w[o].position, ScaleTo(afterSlideToOther, minDistance))
                 ELSE slid
        ELSE finalPosition

RECURSIVE slideAll(_, _, _, _, _, _)
slideAll(w, e, collisions, i, movement, finalPosition) ==
    IF i > Len(collisions) THEN finalPosition
    ELSE slideAll(w, e, collisions, i + 1, movement,
                  slideStep(w, e, collisions[i], movement, finalPosition))

resolveCollisions(w, reg, e, desiredPosition) ==
    IF ~w[e].entityManager THEN desiredPosition
    ELSE LET movement == VSub(desiredPosition, w[e].position)
             collisions ==
                 SelectSeq(Others(w, reg, e),
                           LAMBDA o : FLt(Length(VSub(w[o].position, desiredPosition)),
                                          w[e].radius + w[o].radius))
         IN  slideAll(w, e, collisions, 1, movement, desiredPosition)

\* A push of full strength whatever the distance.
separationPush_unweighted(w, e, o) ==
    LET toOther == VSub(w[e].position, w[o].position)
        distance == Length(toOther)
        preferredDistance == FMul(w[e].radius + w[o].radius, PreferredFactor)
    IN  IF FLt(distance, preferredDistance) /\ FGt(distance, CoincideEps)
        THEN VDivS(toOther, distance)
        ELSE Zero3

\* The contribution of neighbour o to separationForce, or Zero3.
separationPush(w, e, o) ==
    LET toOther == VSub(w[e].position, w[o].position)
        distance == Length(toOther)
        preferredDistance == FMul(w[e].radius + w[o].radius, PreferredFactor)
    IN  IF FLt(distance, preferredDistance) /\ FGt(distance, CoincideEps)
        THEN LET strength == FDiv(preferredDistance - distance, preferredDistance)
             IN  VScale(VDivS(toOther, distance), strength)
        ELSE Zero3

isNearby(w, e, o) ==
    LET distance == Distance(w, e, o)
    IN  FLt(distance, FMul(w[e].radius + w[o].radius, PreferredFactor))
        /\ FGt(distance, CoincideEps)

RECURSIVE sumPushes(_, _, _, _)
sumPushes(w, e, others, i) ==
    IF i > Len(others) THEN Zero3
    ELSE VAdd(separationPush(w, e, others[i]), sumPushes(w, e, others, i + 1))

\* Returns the entity's new position.
applySeparationForces(w, reg, e, deltaTime) ==
    IF ~w[e].entityManager THEN w[e].position
    ELSE LET others == Others(w, reg, e)
             nearby == SelectSeq(others, LAMBDA o : isNearby(w, e, o))
             nearbyCount == Len(nearby)
         IN  IF nearbyCount > 0
             THEN LET separationForce == VDivN(sumPushes(w, e, nearby, 1), nearbyCount)
                  IN  VAdd(w[e].position,
                           VScale(VScale(separationForce, SeparationSpeed), deltaTime))
             ELSE w[e].position

\* The seek part without the clamp of the last step to the target and without
\* the snap: the entity always advances by moveDistance.
seekStep_overshoots(w, reg, e, deltaTime, tie) ==
    LET s == w[e]
    IN  IF ~s.isMoving THEN s
        ELSE LET direction == VSub(s.targetPosition, s.position)
                 distance == Length(direction)
             IN  IF FGt(distance, ArriveEps)
                 THEN LET moveDistance == FMul(s.movementSpeed, deltaTime)
                          desiredPosition ==
                              VAdd(s.position, ScaleTo(direction, moveDistance))
                      IN  [s EXCEPT !.position =
                                        resolveCollisions(w, reg, e, desiredPosition)]
                 ELSE [s EXCEPT !.position = s.targetPosition, !.isMoving = FALSE]

\* The seek part with isMoving cleared by every frame that moves the entity,
\* whether or not it reaches the target.
seekStep_alwaysStops(w, reg, e, deltaTime, tie) ==
    LET s == w[e]
    IN  IF ~s.isMoving THEN s
        ELSE LET direction == VSub(s.targetPosition, s.position)
                 distance == Length(direction)
             IN  IF FGt(distance, ArriveEps)
                 THEN LET moveDistance == FMul(s.movementSpeed, deltaTime)
                          desiredPosition ==
                              IF FGe(moveDistance, distance) THEN s.targetPosition
                              ELSE VAdd(s.position, ScaleTo(direction, moveDistance))
                      IN  [s EXCEPT !.position =
                                        resolveCollisions(w, reg, e, desiredPosition),
                                    !.isMoving = FALSE]
                 ELSE [s EXCEPT !.position = s.targetPosition, !.isMoving = FALSE]

\* The seek part that only clears isMoving when the target is within 0.1 at
\* the start of the update, and leaves the entity short of it.
seekStep_staysShort(w, reg, e, deltaTime, tie) ==
    LET s == w[e]
    IN  IF ~s.isMoving THEN s
        ELSE LET direction == VSub(s.targetPosition, s.position)
                 distance == Length(direction)
             IN  IF FGt(distance, ArriveEps)
                 THEN LET moveDistance == FMul(s.movementSpeed, deltaTime)
                          reaches == IF tie = "exact"
                                     THEN FGe(moveDistance, distance)
                                     ELSE tie = "ge"
                          desiredPosition ==
                              IF reaches THEN s.targetPosition
                              ELSE VAdd(s.position, ScaleTo(direction, moveDistance))
                          finalPosition == resolveCollisions(w, reg, e, desiredPosition)
                      IN  IF FLt(Length(VSub(s.targetPosition, finalPosition)), ArriveEps)
                          THEN [s EXCEPT !.position = s.targetPosition,
                                         !.isMoving = FALSE]
                          ELSE [s EXCEPT !.position = finalPosition,
                                         !.isMoving = ~reaches]
                 ELSE [s EXCEPT !.isMoving = FALSE]

\* The seek part of MobEntity::update (entity.cpp:8-37): the entity's record
\* after it.  tie is "exact" when moveDistance >= distance is computed, and
\* "ge" or "lt" when the caller knows the two sides to be equal up to float
\* rounding, so that the build's rounding decides the comparison.
seekStep(w, reg, e, deltaTime, tie) ==
    LET s == w[e]
    IN  IF ~s.isMoving THEN s
        ELSE LET direction == VSub(s.targetPosition, s.position)
                 distance == Length(direction)
             IN  IF FGt(distance, ArriveEps)
                 THEN LET moveDistance == FMul(s.movementSpeed, deltaTime)
                          reaches == IF tie = "exact"
                                     THEN FGe(moveDistance, distance)
                                     ELSE tie = "ge"
                          desiredPosition ==
                              IF reaches THEN s.targetPosition
                              ELSE VAdd(s.position, ScaleTo(direction, moveDistance))
                          finalPosition == resolveCollisions(w, reg, e, desiredPosition)
                      IN  IF FLt(Length(VSub(s.targetPosition, finalPosition)), ArriveEps)
                          THEN [s EXCEPT !.position = s.targetPosition,
                                         !.isMoving = FALSE]
                          ELSE [s EXCEPT !.position = finalPosition,
                                         !.isMoving = ~reaches]
                 ELSE [s EXCEPT !.position = s.targetPosition, !.isMoving = FALSE]

\* Separation that pushes both sides: every entity of the world is moved by
\* its own separation force.
separateIn_pushesBoth(w1, reg, e, deltaTime) ==
    [o \in Ents |->
        [w1[o] EXCEPT !.position = applySeparationForces(w1, reg, o, deltaTime)]]

\* MobEntity::update with the given outcome of moveDistance >= distance.
separateIn(w1, reg, e, deltaTime) ==
    [w1 EXCEPT ![e].position = applySeparationForces(w1, reg, e, deltaTime)]

mobStep(w, reg, e, deltaTime, tie) ==
    separateIn([w EXCEPT ![e] = seekStep(w, reg, e, deltaTime, tie)],
               reg, e, deltaTime)

\* MobEntity::update: the world after entity e's update.
mobUpdate(w, reg, e, deltaTime) == mobStep(w, reg, e, deltaTime, "exact")


\* ----------------------------------------------------- steering behaviour
\* calculateSteeringForce (entity.cpp:143-234) is split into the operators
\* below, one per stage of the function.

\* entity.cpp:208-209
avoidanceStrength(currentDist, avoidanceRadius) ==
    Clamp(Scale - FDiv(currentDist, avoidanceRadius), 0, Scale)

\* The side test left out: the steering side is always cross(toObstacle, up).
chooseSide_neverFlips(w, e, o, perpendicular, effectiveRadius, fromCross, flip) ==
    perpendicular

\* "Choose direction based on which side has more room" (entity.cpp:196-205).
\* flip is the outcome of rightClearance > leftClearance when perpendicular
\* comes from the cross product: it is then orthogonal to toObstacle, both
\* clearances are sqrt(d^2 + effectiveRadius^2) in exact arithmetic, and the
\* rounding of the float build decides the comparison, so either outcome is
\* possible.  In the fallback branch the clearances differ and the comparison
\* is computed.
chooseSide(w, e, o, perpendicular, effectiveRadius, fromCross, flip) ==
    LET leftCheck == VAdd(w[e].position, VScale(perpendicular, effectiveRadius))
        rightCheck == VSub(w[e].position, VScale(perpendicular, effectiveRadius))
        leftClearance == Length(VSub(w[o].position, leftCheck))
        rightClearance == Length(VSub(w[o].position, rightCheck))
        rightWins == IF fromCross THEN flip ELSE FGt(rightClearance, leftClearance)
    IN  IF rightWins THEN VNeg(perpendicular) ELSE perpendicular

\* entity.cpp:187-205: the steering side for the obstacle, from
\* cross(toObstacle, up).
perpendicularOf(w, e, o, cross, effectiveRadius, flip) ==
    chooseSide(w, e, o,
               IF FGt(Length(cross), SteerEps) THEN Normalize(cross)
               ELSE <<Scale, 0, 0>>,
               effectiveRadius, FGt(Length(cross), SteerEps), flip)

\* entity.cpp:184-212: the term added to avoidanceForce.
avoidPush(w, e, o, toObstacle, currentDist, avoidanceRadius, flip) ==
    VScale(VSub(VScale(perpendicularOf(w, e, o, Cross(toObstacle, Up3),
                                       w[e].radius + w[o].radius + SteerBuffer,
                                       flip),
                       PerpWeight),
                VScale(toObstacle, PushWeight)),
           avoidanceStrength(currentDist, avoidanceRadius))

\* entity.cpp:179-214: <<needsAvoidance, term added to avoidanceForce>>.
avoidCase(w, e, o, avoidanceRadius, flip, triggers, currentDist) ==
    IF triggers /\ FGt(currentDist, SteerEps)
    THEN <<TRUE, avoidPush(w, e, o, Normalize(VSub(w[o].position, w[e].position)),
                           currentDist, avoidanceRadius, flip)>>
    ELSE <<triggers, Zero3>>

\* One iteration of the obstacle loop (entity.cpp:170-214).
avoidOne(w, e, o, futurePos, avoidanceRadius, flip) ==
    avoidCase(w, e, o, avoidanceRadius, flip,
              \/ FLt(Length(VSub(w[o].position, futurePos)),
                     w[e].radius + w[o].radius + SteerBuffer)
              \/ FLt(Length(VSub(w[o].position, w[e].position)), avoidanceRadius),
              Length(VSub(w[o].position, w[e].position)))

avoidJoin(one, rest) == <<one[1] \/ rest[1], VAdd(one[2], rest[2])>>

RECURSIVE avoidAll(_, _, _, _, _, _, _)
avoidAll(w, e, others, i, futurePos, avoidanceRadius, flips) ==
    IF i > Len(others) THEN <<FALSE, Zero3>>
    ELSE avoidJoin(avoidOne(w, e, others[i], futurePos, avoidanceRadius,
                            flips[others[i]]),
                   avoidAll(w, e, others, i + 1, futurePos, avoidanceRadius, flips))

\* entity.cpp:218-233; avoid is <<needsAvoidance, avoidanceForce>>.
combineForces(seekForce, avoid) ==
    LET combinedForce ==
            IF avoid[1]
            THEN VAdd(VScale(seekForce, SeekWeight),
                      VScale(avoid[2], Clamp(Length(avoid[2]), 0, MaxAvoidWeight)))
            ELSE seekForce
    IN  IF FGt(Length(combinedForce), SteerEps)
        THEN Normalize(combinedForce)
        ELSE seekForce

\* entity.cpp:154-233
steerFrom(w, reg, e, avoidanceRadius, flips, seekForce) ==
    combineForces(seekForce,
                  IF w[e].entityManager
                  THEN avoidAll(w, e, Others(w, reg, e), 1,
                                VAdd(w[e].position,
                                     VScale(VScale(seekForce, w[e].movementSpeed),
                                            LookAhead)),
                                avoidanceRadius, flips)
                  ELSE <<FALSE, Zero3>>)

calculateSteeringForce(w, reg, e, targetPos, avoidanceRadius, flips) ==
    IF FLt(Length(VSub(targetPos, w[e].position)), SteerEps) THEN Zero3
    ELSE steerFrom(w, reg, e, avoidanceRadius, flips,
                   Normalize(VSub(targetPos, w[e].position)))

\* ----------------------------------------------------- BasicShooterEnemy
\* The loop with distance <= closestDistance: the last of several members at
\* the minimum distance wins.
RECURSIVE closestFrom_lastWins(_, _, _, _, _, _)
closestFrom_lastWins(w, pty, e, i, closestPC, closestDistance) ==
    IF i > Len(pty) THEN <<closestPC, closestDistance>>
    ELSE IF pty[i] # Null /\ w[pty[i]].active
            /\ ~FGt(Length(VSub(w[pty[i]].position, w[e].position)), closestDistance)
            /\ ~IsNaN(Length(VSub(w[pty[i]].position, w[e].position)))
    THEN closestFrom_lastWins(w, pty, e, i + 1, pty[i],
                              Length(VSub(w[pty[i]].position, w[e].position)))
    ELSE closestFrom_lastWins(w, pty, e, i + 1, closestPC, closestDistance)

\* The "find the closest PC" loop from party index i on: <<closestPC,
\* closestDistance>>.
RECURSIVE closestFrom(_, _, _, _, _, _)
closestFrom(w, pty, e, i, closestPC, closestDistance) ==
    IF i > Len(pty) THEN <<closestPC, closestDistance>>
    ELSE IF pty[i] # Null /\ w[pty[i]].active
            /\ FLt(Length(VSub(w[pty[i]].position, w[e].position)), closestDistance)
    THEN closestFrom(w, pty, e, i + 1, pty[i],
                     Length(VSub(w[pty[i]].position, w[e].position)))
    ELSE closestFrom(w, pty, e, i + 1, closestPC, closestDistance)

findClosestPC(w, pty, e) ==
    IF w[e].party /\ Len(pty) > 0
    THEN closestFrom(w, pty, e, 1, Null, FltMax)
    ELSE <<Null, FltMax>>

desiredDistance(w, e, pc) == w[e].radius + w[pc].radius + EngageGap

backAwayLimit(w, e, pc) == FMul(desiredDistance(w, e, pc), BackAwayFactor)

\* entity.cpp:262-266: the position the approach branch passes to moveTo.
steerTarget(w, reg, e, pc, deltaTime, flips) ==
    VAdd(w[e].position,
         VScale(VScale(calculateSteeringForce(
                           w, reg, e, w[pc].position,
                           Max(MinAvoidRadius,
                               FMul(w[e].movementSpeed, AvoidSpeedFactor)),
                           flips),
                       w[e].movementSpeed),
                deltaTime))

\* entity.cpp:270-271: the position the back-away branch passes to moveTo.
backTarget(w, e, pc, deltaTime) ==
    VAdd(w[e].position,
         VScale(VScale(VScale(Normalize(VSub(w[e].position, w[pc].position)),
                              w[e].movementSpeed),
                       BackAwaySpeed),
                deltaTime))

\* The decision with a stop() when no target was found.
chaseFor_stopsWithoutTarget(w, reg, e, deltaTime, flips, pc, closestDistance) ==
    IF pc = Null THEN [cmd |-> "stop", chosen |-> Null, target |-> Zero3]
    ELSE IF closestDistance > desiredDistance(w, e, pc)
    THEN [cmd |-> "moveTo", chosen |-> pc,
          target |-> steerTarget(w, reg, e, pc, deltaTime, flips)]
    ELSE IF closestDistance < backAwayLimit(w, e, pc)
    THEN [cmd |-> "away", chosen |-> pc, target |-> backTarget(w, e, pc, deltaTime)]
    ELSE [cmd |-> "stop", chosen |-> pc, target |-> Zero3]

\* entity.cpp:254-278 for the closest PC pc at closestDistance.
chaseFor(w, reg, e, deltaTime, flips, pc, closestDistance) ==
    IF pc = Null THEN [cmd |-> "none", chosen |-> Null, target |-> Zero3]
    ELSE IF closestDistance > desiredDistance(w, e, pc)
    THEN [cmd |-> "moveTo", chosen |-> pc,
          target |-> steerTarget(w, reg, e, pc, deltaTime, flips)]
    ELSE IF closestDistance < backAwayLimit(w, e, pc)
    THEN [cmd |-> "away", chosen |-> pc, target |-> backTarget(w, e, pc, deltaTime)]
    ELSE [cmd |-> "stop", chosen |-> pc, target |-> Zero3]

chaseOf(w, reg, e, deltaTime, flips, found) ==
    chaseFor(w, reg, e, deltaTime, flips, found[1], found[2])

\* The command the chase AI issues (entity.cpp:238-279): "moveTo" with the
\* steered next position, "away" (a moveTo with the back-away position),
\* "stop", or "none".
chaseCommand(w, reg, pty, e, deltaTime, flips) ==
    chaseOf(w, reg, e, deltaTime, flips, findClosestPC(w, pty, e))

\* The entity's record after the command.
applyCommand(s, c) ==
    IF c.cmd \in {"moveTo", "away"} THEN moveTo(s, c.target)
    ELSE IF c.cmd = "stop" THEN stop(s)
    ELSE s

\* After the approach branch the target is steeringDir * movementSpeed *
\* deltaTime away, steeringDir a unit vector, and moveDistance is
\* movementSpeed * deltaTime: the comparison moveDistance >= distance of the
\* parent update is between two floats equal up to rounding, and flip is its
\* outcome (TRUE: moveDistance < distance).
reachTie(c, flip) ==
    IF c.cmd = "moveTo" /\ ~IsNaNV(c.target)
    THEN IF flip THEN "lt" ELSE "ge"
    ELSE "exact"

enemyStep(w, reg, e, deltaTime, flip, c) ==
    mobStep([w EXCEPT ![e] = applyCommand(w[e], c)], reg, e, deltaTime,
            reachTie(c, flip))

\* BasicShooterEnemy::update: the world after enemy e's update.
enemyUpdate(w, reg, pty, e, deltaTime, flips) ==
    enemyStep(w, reg, e, deltaTime, flips[e],
              chaseCommand(w, reg, pty, e, deltaTime, flips))

\* The virtual call entity->update(deltaTime).
entityUpdate(w, reg, pty, e, deltaTime, flips) ==
    IF e \in Enemies THEN enemyUpdate(w, reg, pty, e, deltaTime, flips)
    ELSE mobUpdate(w, reg, e, deltaTime)

\* --------------------------------------------------------- EntityManager
addEntity(reg, e) == Append(reg, e)

\* Removal by moving the last entry into the first place e holds.
removeEntity_swapsLast(reg, e) ==
    IF \A i \in 1..Len(reg) : reg[i] # e THEN reg
    ELSE LET k == CHOOSE i \in 1..Len(reg) :
                      reg[i] = e /\ \A j \in 1..(i - 1) : reg[j] # e
         IN  SelectSeq([i \in 1..(Len(reg) - 1) |->
                            IF i = k THEN reg[Len(reg)] ELSE reg[i]],
                       LAMBDA o : o # e)

removeEntity(reg, e) == SelectSeq(reg, LAMBDA o : o # e)

RECURSIVE updateFrom(_, _, _, _, _, _)
updateFrom(w, reg, pty, i, deltaTime, flips) ==
    IF i > Len(reg) THEN w
    ELSE updateFrom(IF w[reg[i]].active
                    THEN entityUpdate(w, reg, pty, reg[i], deltaTime, flips)
                    ELSE w,
                    reg, pty, i + 1, deltaTime, flips)

updateAll(w, reg, pty, deltaTime, flips) == updateFrom(w, reg, pty, 1, deltaTime, flips)


\* ---------------------------------------------------------------- bounds
MaxFrames == 2
MaxCmds == 3
MaxEntities == 3

\* Frame times (ms) and move targets the callers pass.
DtSet == {100, 500}
Targets == {<<1000, 0, 0>>, <<2000, 0, 0>>}

NoFlips == [o \in Ents |-> FALSE]

\* The outcomes of the rounding-decided comparisons of one frame: f[o] for a
\* neighbour o of the enemy is rightClearance > leftClearance for obstacle o,
\* f[e] for the enemy e itself is moveDistance < distance.  They are read only
\* by an enemy with a party: the first for the active neighbours of the
\* registry it scans, the second when it collides.
FlipChoices ==
    IF \E e \in Enemies : ent[e].party /\ ent[e].entityManager /\ ent[e].active
    THEN {f \in [Ents -> BOOLEAN] :
              \A o \in Ents : f[o] => (ent[o].active
                                       /\ \E i \in 1..Len(entities) : entities[i] = o)}
    ELSE {NoFlips}

\* ---------------------------------------------------------------- actions
Op(op, who, dt, chosen, cmd) ==
    [op |-> op, who |-> who, dt |-> dt, chosen |-> chosen, cmd |-> cmd,
     rep |-> IF op = "stop" /\ last.op = op /\ last.who = who THEN 2 ELSE 1,
     stops |-> IF last.op = "stop" /\ last.who = who THEN last.rep ELSE 0]

OpOf(op, who, dt, c) == Op(op, who, dt, c.chosen, c.cmd)

InRegistry(e) == \E i \in 1..Len(entities) : entities[i] = e

\* mob->moveTo(target)
MoveTo(e, target) ==
    /\ ent' = [ent EXCEPT ![e] = moveTo(@, target)]
    /\ travel' = [travel EXCEPT ![e] = [from |-> ent[e].position, budget |-> 0,
                                         updates |-> 0]]
    /\ last' = Op("moveTo", e, 0, Null, "none")
    /\ cmds' = cmds + 1
    /\ UNCHANGED <<input, voxel, audio, search, entities, party, frames>>

\* mob->stop()
Stop(e) ==
    /\ ent' = [ent EXCEPT ![e] = stop(@)]
    /\ last' = Op("stop", e, 0, Null, "none")
    /\ cmds' = cmds + 1
    /\ UNCHANGED <<input, voxel, audio, search, entities, party, travel, frames>>

\* entity->update(deltaTime), called on one entity
Update(e, deltaTime, flips) ==
    /\ ent' = entityUpdate(ent, entities, party, e, deltaTime, flips)
    /\ travel' = [travel EXCEPT ![e].budget = @ + deltaTime, ![e].updates = @ + 1]
    /\ last' = IF e \in Enemies
               THEN OpOf("update", e, deltaTime,
                         chaseCommand(ent, entities, party, e, deltaTime, flips))
               ELSE Op("update", e, deltaTime, Null, "none")
    /\ frames' = frames + 1
    /\ UNCHANGED <<input, voxel, audio, search, entities, party, cmds>>

\* entityManager->updateAll(deltaTime)
UpdateAll(deltaTime, flips) ==
    /\ ent' = updateAll(ent, entities, party, deltaTime, flips)
    /\ travel' = [e \in Ents |->
                     IF InRegistry(e) /\ ent[e].active
                     THEN [travel[e] EXCEPT !.budget = @ + deltaTime,
                                            !.updates = @ + 1]
                     ELSE travel[e]]
    /\ last' = Op("updateAll", Null, deltaTime, Null, "none")
    /\ frames' = frames + 1
    /\ UNCHANGED <<input, voxel, audio, search, entities, party, cmds>>

\* entityManager->addEntity(entity)
AddEntity(e) ==
    /\ entities' = addEntity(entities, e)
    /\ ent' = [ent EXCEPT ![e].entityManager = TRUE]
    /\ last' = Op("addEntity", e, 0, Null, "none")
    /\ cmds' = cmds + 1
    /\ UNCHANGED <<input, voxel, audio, search, party, travel, frames>>

\* entityManager->removeEntity(entity)
RemoveEntity(e) ==
    /\ entities' = removeEntity(entities, e)
    /\ last' = Op("removeEntity", e, 0, Null, "none")
    /\ cmds' = cmds + 1
    /\ UNCHANGED <<input, voxel, audio, search, ent, party, travel, frames>>

\* entity->active = b (a public field, entity.h:22)
SetActive(e, b) ==
    /\ ent' = [ent EXCEPT ![e].active = b]
    /\ last' = Op("setActive", e, 0, Null, "none")
    /\ cmds' = cmds + 1
    /\ UNCHANGED <<input, voxel, audio, search, entities, party, travel, frames>>


\* ------------------------------------------------------------------ Spec
\* The party and registry Game::initialize builds (game.cpp:39-59), and one
\* BasicShooterEnemy constructed as the Q key does (game.cpp:128-132) and
\* not yet added.
Registered(s) == [s EXCEPT !.entityManager = TRUE]

Fresh(w) == [e \in Ents |-> [from |-> w[e].position, budget |-> 0, updates |-> 0]]

InitOp == [op |-> "init", who |-> Null, dt |-> 0, chosen |-> Null, cmd |-> "none",
           rep |-> 1, stops |-> 0]

GameWorld ==
    [e \in Ents |->
        IF e = 1 THEN Registered(NewEntity(<<0, 0, 0>>, DefaultSpeed, FALSE))
        ELSE IF e = 2 THEN Registered(NewEntity(<<2000, 0, 0>>, DefaultSpeed, FALSE))
        ELSE NewEntity(<<1000, 0, 3000>>, EnemySpeed, TRUE)]

Init ==
    /\ ent = GameWorld
    /\ entities = <<1, 2>>
    /\ party = <<1, 2>>
    /\ last = InitOp
    /\ travel = Fresh(GameWorld)
    /\ frames = 0
    /\ cmds = 0
    /\ audio = NewAudioManager
    /\ search = NoSearch
    /\ input = NoInput
    /\ voxel = NewVoxelModel

Next ==
    \/ \E e \in Players, t \in Targets : cmds < MaxCmds /\ MoveTo(e, t)
    \/ \E e \in Players : cmds < MaxCmds /\ Stop(e)
    \/ \E e \in Ents, dt \in DtSet, flips \in FlipChoices :
           frames < MaxFrames /\ Update(e, dt, flips)
    \/ \E dt \in DtSet, flips \in FlipChoices :
           frames < MaxFrames /\ UpdateAll(dt, flips)
    \/ \E e \in Enemies :
           cmds < MaxCmds /\ Len(entities) < MaxEntities /\ AddEntity(e)
    \/ \E e \in Ents : cmds < MaxCmds /\ InRegistry(e) /\ RemoveEntity(e)

Spec == Init /\ [][Next]_vars


\* ----------------------------------------------------------------- claims
Positions(w) == [e \in Ents |-> w[e].position]

\* The active mobile entities of the registry.
ActiveMobs == {e \in Ents : InRegistry(e) /\ ent[e].active}

\* Repeating updateAll changes no position any more, whatever the frame time.
Settled ==
    \A dt \in DtSet, f \in FlipChoices :
        Positions(updateAll(ent, entities, party, dt, f)) = Positions(ent)

\* C1: once updateAll no longer changes any position, every two active
\* mobile entities of the registry are at least the sum of their radii minus
\* 1e-3 apart.
C1_SettledPairsApart ==
    Settled =>
        \A a, b \in ActiveMobs :
            a # b => FGe(Distance(ent, a, b), ent[a].radius + ent[b].radius - 1)

\* No active neighbour of the registry is within separation range of e.
NoSeparationNeighbour(e) ==
    ent[e].entityManager =>
        \A i \in 1..Len(entities) :
            (entities[i] # e /\ ent[entities[i]].active) => ~isNearby(ent, e, entities[i])

\* This step is an update of the entity whose stop() was the call before.
UpdateAfterStop(n) ==
    /\ last.op = "stop" /\ last.rep >= n
    /\ last'.op = "update" /\ last'.who = last.who

\* C6 as stated: after stop(); stop() the entity is not moving, and its next
\* update leaves its position unchanged and isMoving false.
C6_StopTwiceFreezes ==
    [][UpdateAfterStop(2) =>
          /\ ~ent[last.who].isMoving
          /\ ~ent'[last.who].isMoving
          /\ ent'[last.who].position = ent[last.who].position]_vars

\* C6 as amended: after stop(), once or twice, the entity is not moving, its
\* next MobEntity::update leaves isMoving false, and leaves the position
\* unchanged when no active neighbour is within separation range.
C6_StopFreezesUnlessSeparated ==
    [][(UpdateAfterStop(1) /\ last.who \notin Enemies) =>
          /\ ~ent[last.who].isMoving
          /\ ~ent'[last.who].isMoving
          /\ (NoSeparationNeighbour(last.who)
                 => ent'[last.who].position = ent[last.who].position)]_vars

\* An entity stopped twice on its way and then updated: it stays short of its
\* target, not moving.
C6_Witness ==
    /\ last.op = "update" /\ last.stops = 2
    /\ NoSeparationNeighbour(last.who)
    /\ ~ent[last.who].isMoving
    /\ ent[last.who].position # ent[last.who].targetPosition
    /\ ent[last.who].position # GameWorld[last.who].position

\* C7: every mobile entity's radius is positive and no step changes it.
C7_RadiusFixed ==
    [][\A e \in Ents : ent[e].radius > 0 /\ ent'[e].radius = ent[e].radius]_vars

\* Entities that have moved, been pushed apart and seen the registry change.
C7_Witness ==
    /\ frames > 0
    /\ InRegistry(3)
    /\ \E e \in Ents : ent[e].position # GameWorld[e].position


\* ------------------------------------------------------------ SpecMove
\* The registry of Game::initialize driven by moveTo, stop and updateAll only.
NextMove ==
    \/ \E e \in Players, t \in Targets : cmds < MaxCmds /\ MoveTo(e, t)
    \/ \E e \in Players : cmds < MaxCmds /\ Stop(e)
    \/ \E dt \in DtSet : frames < MaxFrames /\ UpdateAll(dt, NoFlips)

SpecMove == Init /\ [][NextMove]_vars

\* -------------------------------------------------------- SpecBlocking
\* A at (0,0,0) and B at (2,0,0), radius 0.5, both registered, B idle;
\* A.moveTo((4,0,0)) with speed 5, then updateAll at one fixed frame time.
MaxBlockFrames == 40
BlockDts == {16, 33, 100, 250}
BlockTarget == <<4000, 0, 0>>

NextBlocking ==
    \/ cmds = 0 /\ MoveTo(1, BlockTarget)
    \/ \E dt \in BlockDts :
           /\ cmds = 1 /\ frames < MaxBlockFrames
           /\ (frames = 0 \/ dt = last.dt)
           /\ UpdateAll(dt, NoFlips)

SpecBlocking == Init /\ [][NextBlocking]_vars

\* Another updateAll at the same frame time changes nothing any more.
BlockSettled ==
    /\ last.op = "updateAll"
    /\ updateAll(ent, entities, party, last.dt, NoFlips) = ent

\* C2: A ends just touching B (distance 1.0 within the arrival epsilon) and
\* not moving, and never ends a frame on the far side of B.
C2_EndsTouchingAndIdle ==
    /\ BlockSettled =>
          /\ ~ent[1].isMoving
          /\ Abs(Distance(ent, 1, 2) - (ent[1].radius + ent[2].radius)) <= ArriveEps
    /\ ent[1].position[1] <= ent[2].position[1]


\* --------------------------------------------------------- SpecArrival
\* One registered mobile entity alone in its registry, sent to P + d and
\* updated with frame times of its caller's choice, zero included.
MaxArriveFrames == 6
MaxArriveCmds == 2
ArriveDts == {0, 16, 100, 250}
ArriveMoves == {<<3000, 0, 4000>>, <<1000, 0, 0>>, <<50, 0, 0>>, <<0, 0, 0>>,
                <<-600, 0, 800>>}

InitArrival ==
    /\ ent = GameWorld
    /\ entities = <<1>>
    /\ party = <<1, 2>>
    /\ last = InitOp
    /\ travel = Fresh(GameWorld)
    /\ frames = 0
    /\ cmds = 0
    /\ audio = NewAudioManager
    /\ search = NoSearch
    /\ input = NoInput
    /\ voxel = NewVoxelModel

NextArrival ==
    \/ \E d \in ArriveMoves :
           cmds < MaxArriveCmds /\ MoveTo(1, VAdd(ent[1].position, d))
    \/ \E dt \in ArriveDts :
           frames < MaxArriveFrames /\ Update(1, dt, NoFlips)

SpecArrival == InitArrival /\ [][NextArrival]_vars

\* Entity e has been updated at least once since its last moveTo, for a total
\* time of at least |d| / movementSpeed.
TravelledEnough(e) ==
    /\ last.op = "update" /\ last.who = e
    /\ cmds > 0 /\ travel[e].updates > 0
    /\ ent[e].movementSpeed * travel[e].budget
           >= Length(VSub(ent[e].targetPosition, travel[e].from)) * Scale

Arrived(w, e) ==
    /\ ~w[e].isMoving
    /\ Length(VSub(w[e].targetPosition, w[e].position)) <= ArriveEps

\* C4: after moveTo(P + d) and updates whose frame times sum to at least
\* |d| / movementSpeed the entity is within 0.1 of P + d and not moving, and
\* every further update of the arrived entity leaves it where it is, not
\* moving.
C4_Arrival ==
    /\ [](TravelledEnough(1) => Arrived(ent, 1))
    /\ [][(TravelledEnough(1) /\ last'.op = "update")
             => (Arrived(ent', 1) /\ ent'[1].position = ent[1].position)]_vars

\* The entity arrived in more than one update, away from where it started.
C4_Witness ==
    /\ TravelledEnough(1) /\ Arrived(ent, 1)
    /\ travel[1].updates > 2
    /\ Length(VSub(ent[1].position, travel[1].from)) >= 1000
    /\ ent[1].movementSpeed * (travel[1].budget - last.dt)
           < Length(VSub(ent[1].targetPosition, travel[1].from)) * Scale


\* ------------------------------------------------------- SpecCoincident
\* Two registered entities of radius 1 placed at exactly the same position,
\* driven by moveTo, stop and updateAll.
CoincideWorld ==
    [e \in Ents |->
        IF e \in Players
        THEN [Registered(NewEntity(<<1000, 0, 0>>, DefaultSpeed, FALSE))
                 EXCEPT !.radius = 2 * DefaultRadius]
        ELSE GameWorld[e]]

InitCoincident ==
    /\ ent = CoincideWorld
    /\ entities = <<1, 2>>
    /\ party = <<1, 2>>
    /\ last = InitOp
    /\ travel = Fresh(CoincideWorld)
    /\ frames = 0
    /\ cmds = 0
    /\ audio = NewAudioManager
    /\ search = NoSearch
    /\ input = NoInput
    /\ voxel = NewVoxelModel

SpecCoincident == InitCoincident /\ [][NextMove]_vars

\* C5: two active registered entities of radius 1 at exactly the same
\* position are a strictly positive distance apart after one updateAll(dt),
\* dt > 0.
C5_CoincidentSeparate ==
    [][(/\ last'.op = "updateAll" /\ last'.dt > 0
        /\ {1, 2} \subseteq ActiveMobs
        /\ ent[1].position = ent[2].position)
          => FGt(Distance(ent', 1, 2), 0)]_vars

\* ----------------------------------------------------------- SpecChase
\* Enemy E (3) at (0,0,0) with party = [P (1) at (10,0,0)], both of radius
\* 0.5 and registered, P never commanded; updateAll at one fixed frame time.
MaxChaseFrames == 70
ChaseDts == {50, 100, 250, 500}

ChaseWorld ==
    [e \in Ents |->
        IF e = 1 THEN Registered(NewEntity(<<10000, 0, 0>>, DefaultSpeed, FALSE))
        ELSE IF e = 3 THEN Registered(NewEntity(<<0, 0, 0>>, EnemySpeed, TRUE))
        ELSE GameWorld[e]]

InitChase ==
    /\ ent = ChaseWorld
    /\ entities = <<1, 3>>
    /\ party = <<1>>
    /\ last = InitOp
    /\ travel = Fresh(ChaseWorld)
    /\ frames = 0
    /\ cmds = 0
    /\ audio = NewAudioManager
    /\ search = NoSearch
    /\ input = NoInput
    /\ voxel = NewVoxelModel

NextChase ==
    \E dt \in ChaseDts, flips \in FlipChoices :
        /\ frames < MaxChaseFrames
        /\ (frames = 0 \/ dt = last.dt)
        /\ UpdateAll(dt, flips)

SpecChase == InitChase /\ [][NextChase]_vars

\* Another updateAll changes nothing any more, whatever the frame time.
ChaseSettled ==
    /\ last.op = "updateAll"
    /\ \A dt \in ChaseDts, f \in FlipChoices :
           updateAll(ent, entities, party, dt, f) = ent

\* C3: once the updates have converged, E is not moving and its distance to
\* P is ownRadius + targetRadius + 0.2 = 1.2, within the arrival epsilon.
C3_ChaseSettlesAtGap ==
    ChaseSettled =>
        /\ ~ent[3].isMoving
        /\ Abs(Distance(ent, 3, 1) - (ent[3].radius + ent[1].radius + 200))
              <= ArriveEps

\* -------------------------------------------------------------- SpecAI
\* One registered BasicShooterEnemy (3) next to the two players, with every
\* shape of party its update can meet: no party pointer, an empty list, a
\* null member, either order, members switched inactive.
MaxAIFrames == 2
MaxAICmds == 2
AIParties == {<<>>, <<1, 2>>, <<2, 1>>, <<Null, 2>>}
AIEnemyAt == {<<1000, 0, 3000>>, <<1000, 0, 1000>>, <<500, 0, 0>>, <<0, 0, 0>>}

InitAI ==
    /\ \E p \in AIEnemyAt, hasParty \in BOOLEAN :
           ent = [GameWorld EXCEPT ![3] = Registered(NewEntity(p, EnemySpeed, hasParty))]
    /\ entities = <<1, 2, 3>>
    /\ party \in AIParties
    /\ ent[3].party \/ party = <<1, 2>>
    /\ last = InitOp
    /\ travel = Fresh(ent)
    /\ frames = 0
    /\ cmds = 0
    /\ audio = NewAudioManager
    /\ search = NoSearch
    /\ input = NoInput
    /\ voxel = NewVoxelModel

NextAI ==
    \/ \E e \in Players, b \in BOOLEAN : cmds < MaxAICmds /\ SetActive(e, b)
    \/ \E t \in Targets : cmds < MaxAICmds /\ MoveTo(3, t)
    \/ \E dt \in DtSet, flips \in FlipChoices :
           frames < MaxAIFrames /\ Update(3, dt, flips)
    \/ \E dt \in DtSet, flips \in FlipChoices :
           frames < MaxAIFrames /\ UpdateAll(dt, flips)

SpecAI == InitAI /\ [][NextAI]_vars

\* This step is BasicShooterEnemy::update called on an enemy.
EnemyUpdated == last'.op = "update" /\ last'.who \in Enemies

\* The party indices of non-null, active members, before the step.
Candidates == {i \in 1..Len(party) : party[i] # Null /\ ent[party[i]].active}

\* The distance from enemy e to party member i, before the step.
MemberDistance(e, i) == Distance(ent, e, party[i])

\* The enemy's update can select a target: it has a party and some non-null,
\* active member of it is at a defined distance.
HasTarget(e) ==
    ent[e].party /\ \E i \in Candidates : ~IsNaN(MemberDistance(e, i))

\* C8: the target chosen by BasicShooterEnemy::update is a non-null, active
\* party member, no active member is closer to the enemy, and among the
\* active members at that minimum distance it is the earliest of the list;
\* a target is chosen whenever an active member is at a defined distance.
C8_NearestActiveFirst ==
    [][EnemyUpdated =>
          /\ HasTarget(last'.who) <=> last'.chosen # Null
          /\ last'.chosen # Null =>
                \E i \in Candidates :
                    /\ party[i] = last'.chosen
                    /\ \A j \in Candidates :
                           /\ MemberDistance(last'.who, i) <= MemberDistance(last'.who, j)
                           /\ (MemberDistance(last'.who, j) = MemberDistance(last'.who, i)
                                  => i <= j)]_vars

\* The enemy has just chosen the first of two active members at the same
\* distance, having passed over nobody.
C8_Witness ==
    /\ last.op = "update" /\ last.who \in Enemies
    /\ Len(party) = 2 /\ party[1] # Null /\ party[1] # party[2]
    /\ last.chosen = party[1]
    /\ ent[1].active /\ ent[2].active
    /\ frames = 1 /\ cmds = 0
    /\ ent[3].position = <<1000, 0, 1000>>

\* C9: without a party pointer, with an empty party or with no active
\* member, BasicShooterEnemy::update issues neither moveTo nor stop: the
\* target position is unchanged and the enemy moves as MobEntity::update
\* moves it, still seeking if it was.
C9_NoTargetNoCommand ==
    [][(EnemyUpdated /\ (~ent[last'.who].party \/ Len(party) = 0 \/ Candidates = {}))
          => /\ last'.cmd = "none"
             /\ ent'[last'.who].targetPosition = ent[last'.who].targetPosition
             /\ ent' = mobUpdate(ent, entities, last'.who, last'.dt)
             /\ (ent[last'.who].isMoving
                  /\ Length(VSub(ent[last'.who].targetPosition,
                                 ent[last'.who].position))
                        > ent[last'.who].movementSpeed
                     => ent'[last'.who].isMoving)]_vars

\* An enemy with a party whose members are all inactive, sent on its way
\* with moveTo, has been updated and is still seeking, nearer its target.
C9_Witness ==
    /\ last.op = "update" /\ last.who = 3 /\ last.cmd = "none"
    /\ ent[3].party /\ Len(party) > 0
    /\ \A i \in 1..Len(party) : party[i] # Null => ~ent[party[i]].active
    /\ ent[3].isMoving
    /\ ent[3].position # GameWorld[3].position
    /\ ent[3].targetPosition \in Targets

\* The point t lies directly away from the point q as seen from p.
DirectlyAway(p, q, t) ==
    /\ ~IsNaNV(t)
    /\ \A k \in 1..3 : (t[k] - p[k]) * (p[k] - q[k]) >= 0
    /\ Length(VSub(t, q)) >= Length(VSub(p, q))

\* C10: with S = ownRadius + targetRadius + gap and x the distance to the
\* selected target, the update issues the steered moveTo iff x > S, stop and
\* no moveTo iff 0.7 S <= x <= S, and a moveTo to a point directly away from
\* the target iff x < 0.7 S.
C10_ThreeZones ==
    [][(EnemyUpdated /\ last'.chosen # Null) =>
          LET e == last'.who
              pc == last'.chosen
              x == Distance(ent, e, pc)
              S == ent[e].radius + ent[pc].radius + EngageGap
          IN  /\ last'.cmd \in {"moveTo", "stop", "away"}
              /\ last'.cmd = "moveTo" <=> x > S
              /\ last'.cmd = "stop" <=> (FMul(S, BackAwayFactor) <= x /\ x <= S)
              /\ last'.cmd = "away" <=> x < FMul(S, BackAwayFactor)
              /\ last'.cmd = "stop" =>
                    ent'[e].targetPosition = ent[e].targetPosition
              /\ last'.cmd = "away" =>
                    DirectlyAway(ent[e].position, ent[pc].position,
                                 ent'[e].targetPosition)]_vars

\* C10 away from the degenerate case x = 0.
C10_ThreeZonesApart ==
    [][(EnemyUpdated /\ last'.chosen # Null
        /\ Distance(ent, last'.who, last'.chosen) > 0) =>
          LET e == last'.who
              pc == last'.chosen
              x == Distance(ent, e, pc)
              S == ent[e].radius + ent[pc].radius + EngageGap
          IN  /\ last'.cmd \in {"moveTo", "stop", "away"}
              /\ last'.cmd = "moveTo" <=> x > S
              /\ last'.cmd = "stop" <=> (FMul(S, BackAwayFactor) <= x /\ x <= S)
              /\ last'.cmd = "away" <=> x < FMul(S, BackAwayFactor)
              /\ last'.cmd = "stop" =>
                    ent'[e].targetPosition = ent[e].targetPosition
              /\ last'.cmd = "away" =>
                    DirectlyAway(ent[e].position, ent[pc].position,
                                 ent'[e].targetPosition)]_vars


\* --------------------------------------------------------- SpecMachine
\* The two players of Game::initialize commanded and updated one at a time
\* or by the registry, with targets short of, inside and beyond the other
\* player's circle.
MaxMachineFrames == 2
MaxMachineCmds == 2
MachineTargets == {<<1000, 0, 0>>, <<1500, 0, 0>>, <<3000, 0, 0>>}

NextMachine ==
    \/ \E e \in Players, t \in MachineTargets :
           cmds < MaxMachineCmds /\ MoveTo(e, t)
    \/ \E e \in Players : cmds < MaxMachineCmds /\ Stop(e)
    \/ \E e \in Players, dt \in DtSet :
           frames < MaxMachineFrames /\ Update(e, dt, NoFlips)
    \/ \E dt \in DtSet : frames < MaxMachineFrames /\ UpdateAll(dt, NoFlips)

SpecMachine == Init /\ [][NextMachine]_vars

\* The world entity e sees when updateAll reaches it: the entries before it
\* have been updated (players only precede a player, so no steering side is
\* read).
RECURSIVE worldAt(_, _, _, _, _, _)
worldAt(w, reg, pty, i, e, deltaTime) ==
    IF i > Len(reg) \/ reg[i] = e THEN w
    ELSE worldAt(IF w[reg[i]].active
                 THEN entityUpdate(w, reg, pty, reg[i], deltaTime, NoFlips)
                 ELSE w,
                 reg, pty, i + 1, e, deltaTime)

\* The world entity e is updated in by the step.
SeenBy(e) ==
    IF last'.op = "updateAll"
    THEN worldAt(ent, entities, party, 1, e, last'.dt)
    ELSE ent

\* The step calls update on entity e.
Updated(e) ==
    \/ last'.op = "update" /\ last'.who = e
    \/ last'.op = "updateAll" /\ InRegistry(e) /\ ent[e].active

\* desiredPosition of MobEntity::update (entity.cpp:9-22).
desiredPositionOf(w, e, deltaTime) ==
    IF FGe(FMul(w[e].movementSpeed, deltaTime),
           Length(VSub(w[e].targetPosition, w[e].position)))
    THEN w[e].targetPosition
    ELSE VAdd(w[e].position,
              ScaleTo(VSub(w[e].targetPosition, w[e].position),
                      FMul(w[e].movementSpeed, deltaTime)))

\* Position p overlaps an active neighbour of e (entity.cpp:62-75).
OverlapsNeighbour(w, reg, e, p) ==
    /\ w[e].entityManager
    /\ \E i \in 1..Len(reg) :
           /\ reg[i] # e /\ w[reg[i]].active
           /\ FLt(Length(VSub(w[reg[i]].position, p)), w[e].radius + w[reg[i]].radius)

\* isMoving goes false -> true only through moveTo, and an Idle entity stays
\* Idle with its targetPosition across updates.
OnlyMoveToStarts(e) ==
    /\ (~ent[e].isMoving /\ ent'[e].isMoving)
          => (last'.op = "moveTo" /\ last'.who = e)
    /\ (~ent[e].isMoving /\ last'.op \in {"update", "updateAll"})
          => (~ent'[e].isMoving /\ ent'[e].targetPosition = ent[e].targetPosition)

\* The desired position of e's update in this step overlapped a neighbour.
BlockedThisFrame(e) ==
    OverlapsNeighbour(SeenBy(e), entities, e,
                      desiredPositionOf(SeenBy(e), e, last'.dt))

\* C11 as stated: isMoving goes false -> true only through moveTo; it goes
\* true -> false only through stop(), or through an update after which the
\* entity is within 0.1 of targetPosition, or whose desired position
\* overlapped an active neighbour.
C11_StateMachine ==
    [][\A e \in Players :
          /\ OnlyMoveToStarts(e)
          /\ (ent[e].isMoving /\ ~ent'[e].isMoving) =>
                \/ last'.op = "stop" /\ last'.who = e
                \/ /\ Updated(e)
                   /\ \/ Length(VSub(ent'[e].targetPosition, ent'[e].position))
                            <= ArriveEps
                      \/ BlockedThisFrame(e)]_vars

\* C11 as amended: the arrival is that of the movement part of the update,
\* which puts the entity on targetPosition; the separation push of the same
\* update may then move it off, further than 0.1.
C11_StateMachineBeforePush ==
    [][\A e \in Players :
          /\ OnlyMoveToStarts(e)
          /\ (ent[e].isMoving /\ ~ent'[e].isMoving) =>
                \/ last'.op = "stop" /\ last'.who = e
                \/ /\ Updated(e)
                   /\ \/ ent'[e].position =
                            applySeparationForces(
                                [SeenBy(e) EXCEPT ![e].position = ent[e].targetPosition],
                                entities, e, last'.dt)
                      \/ BlockedThisFrame(e)]_vars

\* Player 1, sent to a point inside player 2's circle and updated once with a
\* frame long enough to reach it, is Idle where it started.
C11_Witness ==
    /\ last.op = "update" /\ last.who = 1 /\ cmds = 1 /\ frames = 1
    /\ ent[1].targetPosition = <<1500, 0, 0>>
    /\ ~ent[1].isMoving
    /\ ent[1].position = GameWorld[1].position

\* -------------------------------------------------------- SpecRegistry
\* The registry of Game::initialize with entities added (also a second
\* time), removed (also when absent), switched off and on, sent to targets,
\* and updated one at a time or by updateAll.
MaxRegistryCmds == 4
MaxRegistryFrames == 1
MaxRegistryLen == 3

NextRegistry ==
    \/ \E e \in Ents :
           cmds < MaxRegistryCmds /\ Len(entities) < MaxRegistryLen /\ AddEntity(e)
    \/ \E e \in Ents : cmds < MaxRegistryCmds /\ RemoveEntity(e)
    \/ \E e \in Players, t \in Targets : cmds < MaxRegistryCmds /\ MoveTo(e, t)
    \/ \E e \in Players, b \in BOOLEAN :
           cmds < MaxRegistryCmds /\ ent[e].active # b /\ SetActive(e, b)
    \/ \E e \in Ents, dt \in DtSet, flips \in FlipChoices :
           frames < MaxRegistryFrames /\ Update(e, dt, flips)
    \/ \E dt \in DtSet, flips \in FlipChoices :
           frames < MaxRegistryFrames /\ UpdateAll(dt, flips)

SpecRegistry == Init /\ [][NextRegistry]_vars

\* The indices of reg that do not hold e, and the place of index i among them.
KeptIndices(reg, e) == {i \in 1..Len(reg) : reg[i] # e}

RankIn(S, i) == Cardinality({j \in S : j <= i})

\* reg2 is reg without the entries that are e, the others in their order.
RemovedInOrder(reg, e, reg2) ==
    /\ Len(reg2) = Cardinality(KeptIndices(reg, e))
    /\ \A i \in KeptIndices(reg, e) : reg2[RankIn(KeptIndices(reg, e), i)] = reg[i]

\* The entries of reg that are active in w, in the order of reg.
ActiveInOrder(w, reg) == SelectSeq(reg, LAMBDA o : w[o].active)

\* update called on the entries of seq one after the other, from the k-th.
RECURSIVE updatesInOrder(_, _, _, _, _, _, _)
updatesInOrder(w, reg, pty, seq, k, deltaTime, flips) ==
    IF k > Len(seq) THEN w
    ELSE updatesInOrder(entityUpdate(w, reg, pty, seq[k], deltaTime, flips),
                        reg, pty, seq, k + 1, deltaTime, flips)

\* C12: addEntity appends, removeEntity(e) takes out e and keeps the order of
\* the others, nothing else changes the list (so it lists the entities added
\* and not removed in insertion order), and updateAll(dt) is the updates of
\* the active entries in list order.
C12_RegistryOrder ==
    [][/\ last'.op = "addEntity" => entities' = entities \o <<last'.who>>
       /\ last'.op = "removeEntity" =>
             /\ RemovedInOrder(entities, last'.who, entities')
             /\ \A i \in 1..Len(entities') : entities'[i] # last'.who
       /\ last'.op \notin {"addEntity", "removeEntity"} => entities' = entities
       /\ last'.op = "updateAll" =>
             \E flips \in FlipChoices :
                 ent' = updatesInOrder(ent, entities, party,
                                       ActiveInOrder(ent, entities), 1,
                                       last'.dt, flips)]_vars

\* Player 1 removed and added again stands behind player 2, and an updateAll
\* has moved both towards each other in that order.
C12_Witness ==
    /\ last.op = "updateAll"
    /\ entities = <<2, 1>>
    /\ ent[1].position # GameWorld[1].position
    /\ ent[2].position # GameWorld[2].position

\* C13: an updateAll pass leaves every inactive entry of the registry as it
\* was; every update gives the result it gives with the inactive entries
\* taken out of the registry (they are no neighbour for collision
\* resolution, separation or steering); and no update changes the registry.
C13_InactiveIgnored ==
    [][/\ last'.op \in {"update", "updateAll"} => entities' = entities
       /\ last'.op = "updateAll" =>
             /\ \A e \in Ents : (InRegistry(e) /\ ~ent[e].active) => ent'[e] = ent[e]
             /\ \E flips \in FlipChoices :
                    ent' = updateAll(ent, ActiveInOrder(ent, entities), party,
                                     last'.dt, flips)
       /\ last'.op = "update" =>
             \E flips \in FlipChoices :
                 ent' = entityUpdate(ent, ActiveInOrder(ent, entities), party,
                                     last'.who, last'.dt, flips)]_vars

\* Player 2 is switched off and still registered, and an updateAll has walked
\* player 1 onto player 2's place.
C13_Witness ==
    /\ last.op = "updateAll"
    /\ InRegistry(1) /\ InRegistry(2)
    /\ ent[1].active /\ ~ent[2].active
    /\ ent[1].position = ent[2].position
    /\ ent[2] = [GameWorld[2] EXCEPT !.active = FALSE]

\* Entity e's update in this step resolves a desired position that lies on
\* the centre of the active registered neighbour o.
ResolvesOnCentre(e, o) ==
    /\ last'.op = "update" /\ last'.who = e
    /\ ent[e].isMoving /\ ent[e].entityManager
    /\ FGt(Length(VSub(ent[e].targetPosition, ent[e].position)), ArriveEps)
    /\ o # e /\ InRegistry(o) /\ ent[o].active
    /\ Length(VSub(ent[o].position, desiredPositionOf(ent, e, last'.dt)))
          <= CoincideEps

\* C14: a moving entity whose desired position coincides with an active
\* neighbour's centre (distance <= 0.001) is pushed out against its movement
\* direction: after the update it is off the neighbour's centre, on the side
\* it came from.
C14_CoincidentPushedBack ==
    [][\A e \in Players, o \in Ents :
          ResolvesOnCentre(e, o) =>
              /\ FGt(Length(VSub(ent'[e].position, ent[o].position)), CoincideEps)
              /\ Dot(VSub(ent'[e].position, ent[o].position),
                     VSub(ent[e].targetPosition, ent[e].position)) < 0]_vars

\* C15: every entity's position and targetPosition are defined and finite
\* at all times (no update normalises a zero-length vector).
C15_AlwaysFinite ==
    \A e \in Ents : ~IsNaNV(ent[e].position) /\ ~IsNaNV(ent[e].targetPosition)

\* C16: a step that calls update on one entity changes at most that
\* entity's position, targetPosition and isMoving: the registry list, the
\* party list, every other entity and the entity's other fields are as
\* before.
C16_UpdateWritesOwn ==
    [][last'.op = "update" =>
          /\ entities' = entities
          /\ party' = party
          /\ \A o \in Ents \ {last'.who} : ent'[o] = ent[o]
          /\ ent'[last'.who] =
                 [ent[last'.who] EXCEPT
                      !.position = ent'[last'.who].position,
                      !.targetPosition = ent'[last'.who].targetPosition,
                      !.isMoving = ent'[last'.who].isMoving]]_vars

\* The registered enemy has been updated with both players in the registry:
\* it has chosen a target, set its move intent and moved.
C16_Witness ==
    /\ last.op = "update" /\ last.who = 3 /\ last.cmd = "moveTo"
    /\ InRegistry(3) /\ InRegistry(1) /\ InRegistry(2)
    /\ ent[3].position # GameWorld[3].position
    /\ ent[3].targetPosition # GameWorld[3].targetPosition

\* ------------------------------------------------------ waypoint search
\* The ring-sampling planner (spec section 4.3).  A neighbour is a record
\* [position, radius]; the clearance of a point to a neighbour is its
\* distance to the neighbour's circle.
RingShrink == 700
RingSamples == 16

\* cos(k * 22.5 degrees), k = 0..15.
Cos16 ==
    <<1000, 924, 707, 383, 0, -383, -707, -924,
      -1000, -924, -707, -383, 0, 383, 707, 924>>

cosOf(k) == Cos16[(k % RingSamples) + 1]
sinOf(k) == Cos16[((k + 12) % RingSamples) + 1]

\* The k-th sample of the ring of radius r around self, on the ground plane.
ringSample(self, r, k) ==
    <<self[1] + FMul(r, cosOf(k)), self[2], self[3] + FMul(r, sinOf(k))>>

clearance(p, n) == Length(VSub(n.position, p)) - n.radius

minClearance(ownRadius) == TDiv(ownRadius, 2)

\* The squared length of v, the form in which distances are compared.
Length2(v) == v[1] * v[1] + v[2] * v[2] + v[3] * v[3]

\* clearance(p, n) >= h, compared in squares.
hasClearance(p, n, h) ==
    Length2(VSub(n.position, p)) >= (n.radius + h) * (n.radius + h)

isValidSample(p, neighbours, ownRadius) ==
    \A n \in neighbours : hasClearance(p, n, minClearance(ownRadius))

isForward(p, self, target) == Dot(VSub(p, self), VSub(target, self)) >= 0

\* The samples of a ring the pass may return.
validSamples(q, r, allowBackward) ==
    {k \in 0..(RingSamples - 1) :
        /\ isValidSample(ringSample(q.self, r, k), q.neighbours, q.ownRadius)
        /\ allowBackward \/ isForward(ringSample(q.self, r, k), q.self, q.target)}

toTarget(q, r, k) == Length2(VSub(q.target, ringSample(q.self, r, k)))

\* The first valid sample of the ring, whatever its distance to the target.
bestSample_firstValid(q, r, allowBackward) ==
    LET K == validSamples(q, r, allowBackward)
    IN  IF K = {} THEN -1 ELSE CHOOSE k \in K : \A j \in K : k <= j

\* The valid sample of the ring closest to the target (the first of them in
\* sampling order), or -1 when the ring has none.
bestSample(q, r, allowBackward) ==
    LET K == validSamples(q, r, allowBackward)
    IN  IF K = {} THEN -1
        ELSE CHOOSE k \in K :
                 \A j \in K : \/ toTarget(q, r, k) < toTarget(q, r, j)
                              \/ toTarget(q, r, k) = toTarget(q, r, j) /\ k <= j

\* The ring radius halves from round to round.
nextRadius_halves(r) == TDiv(r, 2)

\* The radius of the next ring.
nextRadius(r) == FMul(r, RingShrink)

\* The point one radius-length straight toward the target.
fallbackPoint(q) == VAdd(q.self, ScaleTo(VSub(q.target, q.self), q.ownRadius))

\* A search asked for with inputs q: the forward pass at the start radius.
\* rings lists the rings sampled so far, each with its pass.
startSearch(q) ==
    [phase |-> "search", q |-> q, radius |-> q.startRadius,
     allowBackward |-> FALSE, found |-> "none", result |-> Zero3, rounds |-> 0,
     rings |-> <<>>]

\* One round of a pass: the ring gives the waypoint or the next ring is tried.
RingStep ==
    /\ search.phase = "search"
    /\ search.radius >= search.q.ownRadius
    /\ LET k == bestSample(search.q, search.radius, search.allowBackward)
       IN  search' =
               IF k >= 0
               THEN [search EXCEPT !.phase = "done", !.found = "ring",
                                   !.result = ringSample(search.q.self, search.radius, k),
                                   !.rounds = @ + 1,
                                   !.rings = Append(@, [radius |-> search.radius,
                                                        backward |-> search.allowBackward])]
               ELSE [search EXCEPT !.radius = nextRadius(@), !.rounds = @ + 1,
                                   !.rings = Append(@, [radius |-> search.radius,
                                                        backward |-> search.allowBackward])]
    /\ UNCHANGED <<ent, entities, party, last, travel, frames, cmds, audio,
                 input, voxel>>

\* The forward pass is exhausted: start again with backward samples allowed.
RestartBackward ==
    /\ search.phase = "search"
    /\ search.radius < search.q.ownRadius
    /\ ~search.allowBackward
    /\ search' = [search EXCEPT !.radius = search.q.startRadius,
                                !.allowBackward = TRUE]
    /\ UNCHANGED <<ent, entities, party, last, travel, frames, cmds, audio,
                 input, voxel>>

\* Both passes are exhausted: one radius-length straight toward the target.
Fallback ==
    /\ search.phase = "search"
    /\ search.radius < search.q.ownRadius
    /\ search.allowBackward
    /\ search' = [search EXCEPT !.phase = "done", !.found = "fallback",
                                !.result = fallbackPoint(search.q)]
    /\ UNCHANGED <<ent, entities, party, last, travel, frames, cmds, audio,
                 input, voxel>>

\* Inputs: the entity at the origin, its radius, the start radius of the
\* rings, a target, and neighbours on the direct line to the target: the
\* blocker of the scenario, the blocker with one or two more beside it, a
\* circle that covers the whole forward half of every ring, and one that
\* covers every ring.
OwnRadii == {500, 1000}
StartRadii == {400, 2000, 3000}
SearchTargets == {<<4000, 0, 0>>, <<4000, 0, 1000>>, <<6000, 0, 0>>}
Blocker(x, z, r) == [position |-> <<x, 0, z>>, radius |-> r]
NeighbourSets ==
    {{Blocker(2000, 0, 1000)},
     {Blocker(2000, 0, 1000), Blocker(2000, 2000, 1000)},
     {Blocker(2000, 0, 1000), Blocker(2000, 2000, 1000), Blocker(2000, -2000, 1000)},
     {Blocker(2000, 0, 3000)},
     {Blocker(2000, 0, 6000)}}

SearchInputs ==
    {[self |-> Zero3, ownRadius |-> r, startRadius |-> s, target |-> t,
      neighbours |-> N] :
        r \in OwnRadii, s \in StartRadii, t \in SearchTargets, N \in NeighbourSets}

InitWaypoint ==
    /\ ent = GameWorld
    /\ entities = <<1, 2>>
    /\ party = <<1, 2>>
    /\ last = InitOp
    /\ travel = Fresh(GameWorld)
    /\ frames = 0
    /\ cmds = 0
    /\ audio = NewAudioManager
    /\ input = NoInput
    /\ voxel = NewVoxelModel
    /\ search \in {startSearch(q) : q \in SearchInputs}

NextWaypoint == RingStep \/ RestartBackward \/ Fallback

SpecWaypoint == InitWaypoint /\ [][NextWaypoint]_vars

\* The search is a loop of one call: it runs until it returns.
SpecWaypointFair == SpecWaypoint /\ WF_vars(NextWaypoint)

SearchDone == search.phase = "done"

RingsAsSpecified ==
    LET q == search.q
        R == search.rings
    IN  /\ R # <<>> => R[1].radius = q.startRadius /\ ~R[1].backward
        /\ \A i \in 1..Len(R) : R[i].radius >= q.ownRadius
        /\ \A i \in 1..(Len(R) - 1) :
               IF R[i].backward = R[i + 1].backward
               THEN R[i + 1].radius = TDiv(R[i].radius * 7, 10)
               ELSE /\ ~R[i].backward /\ R[i + 1].backward
                    /\ TDiv(R[i].radius * 7, 10) < q.ownRadius
                    /\ R[i + 1].radius = q.startRadius

\* What a finished search returned: a sample of its last ring, or, with
\* both passes exhausted, the point one radius-length from self toward the
\* target.
ReturnedPoint ==
    LET q == search.q
        R == search.rings
    IN  /\ ~IsNaNV(search.result)
        /\ search.found \in {"ring", "fallback"}
        /\ search.found = "ring" =>
               \E k \in 0..(RingSamples - 1) :
                   search.result = ringSample(q.self, R[Len(R)].radius, k)
        /\ search.found = "fallback" =>
               /\ search.allowBackward
               /\ R # <<>> => /\ R[Len(R)].backward
                              /\ TDiv(R[Len(R)].radius * 7, 10) < q.ownRadius
               /\ Length(VSub(search.result, q.self)) \in (q.ownRadius - 2)..q.ownRadius
               /\ Length(VSub(q.target, search.result))
                      < Length(VSub(q.target, q.self))

\* C18: every search ends and returns a point, after rings whose radius
\* shrinks by the factor 0.7 down to the own radius, with one restart that
\* allows backward samples, and with the point one radius-length straight
\* toward the target when no ring gave a sample.
C18_SearchReturns == <>(SearchDone /\ RingsAsSpecified /\ ReturnedPoint)

\* A search that went through every ring of both passes and returned the
\* fallback point.
C18_Witness ==
    /\ SearchDone /\ search.found = "fallback" /\ search.allowBackward
    /\ search.q.startRadius = 3000
    /\ search.rounds > 2

\* --------------------------------------------------------- AudioManager
\* The source pool of AudioManager (audio_manager.cpp).  A state a is the
\* record of the members; the OpenAL calls that can fail are alGenSources
\* (genOK) and the configuration and start of a source (playOK), each
\* followed by alGetError in the code.
MAX_SOURCES == 32

\* The record of a call in the state.
Called(a, op, arg, genOK, playOK, ret) ==
    [a EXCEPT !.op = op, !.arg = arg, !.genOK = genOK, !.playOK = playOK,
              !.ret = ret, !.ops = @ + 1]

RECURSIVE newSources(_, _)
newSources(from, n) == IF n = 0 THEN <<>> ELSE <<from + 1>> \o newSources(from + 1, n - 1)

\* AudioManager::initialize: deviceOK is the opening of device and context,
\* n the number of the MAX_SOURCES / 2 alGenSources calls that succeed.
initialize(a, deviceOK, n) ==
    IF a.m_initialized THEN [a EXCEPT !.ret = 1]
    ELSE IF ~deviceOK THEN [a EXCEPT !.ret = 0]
    ELSE [a EXCEPT !.m_availableSources = @ \o newSources(a.generated, n),
                   !.generated = @ + n,
                   !.m_initialized = TRUE,
                   !.ret = 1]

\* AudioManager::loadSound: fileOK is the outcome of alGenBuffers and loadWAV.
loadSound(a, name, fileOK) ==
    IF ~a.m_initialized THEN [a EXCEPT !.ret = 0]
    ELSE IF name \in a.m_soundBuffers THEN [a EXCEPT !.ret = 1]
    ELSE IF ~fileOK THEN [a EXCEPT !.ret = 0]
    ELSE [a EXCEPT !.m_soundBuffers = @ \cup {name}, !.ret = 1]

\* AudioManager::getAvailableSource: the state after it and the source it
\* returns (0: none).
getAvailableSource(a, genOK) ==
    IF a.m_availableSources # <<>>
    THEN LET source == a.m_availableSources[Len(a.m_availableSources)]
         IN  [a |-> [a EXCEPT !.m_availableSources = SubSeq(@, 1, Len(@) - 1),
                              !.m_activeSources = Append(@, source)],
              source |-> source]
    ELSE IF Len(a.m_activeSources) + Len(a.m_availableSources) < MAX_SOURCES /\ genOK
    THEN [a |-> [a EXCEPT !.generated = @ + 1,
                          !.m_activeSources = Append(@, a.generated + 1)],
          source |-> a.generated + 1]
    ELSE [a |-> a, source |-> 0]

\* The first place of seq that holds x.
firstIndex(seq, x) == CHOOSE i \in 1..Len(seq) : seq[i] = x /\ \A j \in 1..(i - 1) : seq[j] # x

\* std::find + erase: seq without the first entry that is x.
eraseFirst(seq, x) ==
    IF \A i \in 1..Len(seq) : seq[i] # x THEN seq
    ELSE SubSeq(seq, 1, firstIndex(seq, x) - 1)
             \o SubSeq(seq, firstIndex(seq, x) + 1, Len(seq))

\* AudioManager::returnSource
returnSource(a, sourceId) ==
    [a EXCEPT !.m_activeSources = eraseFirst(@, sourceId),
              !.m_availableSources = Append(@, sourceId)]

\* A failed start that keeps the source among the active ones.
playFrom_keepsFailed(g, playOK) ==
    IF g.source = 0 THEN [g.a EXCEPT !.ret = 0]
    ELSE IF ~playOK THEN [g.a EXCEPT !.ret = 0]
    ELSE [g.a EXCEPT !.ret = g.source, !.issued = @ \cup {g.source}]

\* playSound from the source getAvailableSource gave (g) on.
playFrom(g, playOK) ==
    IF g.source = 0 THEN [g.a EXCEPT !.ret = 0]
    ELSE IF ~playOK THEN [returnSource(g.a, g.source) EXCEPT !.ret = 0]
    ELSE [g.a EXCEPT !.ret = g.source, !.issued = @ \cup {g.source}]

\* AudioManager::playSound
playSound(a, name, genOK, playOK) ==
    IF ~a.m_initialized THEN [a EXCEPT !.ret = 0]
    ELSE IF name \notin a.m_soundBuffers THEN [a EXCEPT !.ret = 0]
    ELSE playFrom(getAvailableSource(a, genOK), playOK)

\* AudioManager::playSoundSimple: playSound with a listener-relative source.
playSoundSimple(a, name, genOK, playOK) ==
    IF ~a.m_initialized THEN [a EXCEPT !.ret = 0]
    ELSE IF name \notin a.m_soundBuffers THEN [a EXCEPT !.ret = 0]
    ELSE playFrom(getAvailableSource(a, genOK), playOK)

\* AudioManager::stopSound
stopSound(a, sourceId) == IF sourceId = 0 THEN a ELSE returnSource(a, sourceId)

\* AudioManager::stopAllSounds
stopAllSounds(a) ==
    [a EXCEPT !.m_availableSources = @ \o a.m_activeSources,
              !.m_activeSources = <<>>]

\* AudioManager::update: stopped is the set of sources OpenAL reports
\* AL_STOPPED.
audioUpdate(a, stopped) ==
    IF ~a.m_initialized THEN a
    ELSE [a EXCEPT !.m_availableSources =
                       @ \o SelectSeq(a.m_activeSources, LAMBDA x : x \in stopped),
                   !.m_activeSources = SelectSeq(@, LAMBDA x : x \notin stopped)]

\* The manager after initialize, loadSound("hit") and k looping sounds
\* started, all successful.
RECURSIVE afterPlays(_)
afterPlays(k) ==
    IF k = 0
    THEN loadSound(initialize(NewAudioManager, TRUE, MAX_SOURCES \div 2), "hit", TRUE)
    ELSE playSound(afterPlays(k - 1), "hit", TRUE, TRUE)

\* ------------------------------------------------------------ SpecAudio
\* The calls of the audio interface in any order, on a fresh manager and on
\* managers that play 0, 16, 31 and 32 sounds.  stopSound is given 0 or an
\* id playSound has returned.
MaxAudioOps == 3
StartPlays == {0, 16, 31, 32}
SoundNames == {"hit", "miss"}
Handles == {0, 1, 16, 32}
PreallocOutcomes == {0, 15, 16}

SetOf(seq) == {seq[i] : i \in 1..Len(seq)}

AudioRest ==
    UNCHANGED <<ent, entities, party, last, travel, frames, cmds, search,
                input, voxel>>

Initialize(deviceOK, n) ==
    /\ audio' = Called(initialize(audio, deviceOK, n), "initialize", 0, TRUE, TRUE,
                       initialize(audio, deviceOK, n).ret)
    /\ AudioRest

LoadSound(name, fileOK) ==
    /\ audio' = Called(loadSound(audio, name, fileOK), "loadSound", name, TRUE, TRUE,
                       loadSound(audio, name, fileOK).ret)
    /\ AudioRest

PlaySound(name, genOK, playOK) ==
    /\ audio' = Called(playSound(audio, name, genOK, playOK), "playSound", name,
                       genOK, playOK, playSound(audio, name, genOK, playOK).ret)
    /\ AudioRest

PlaySoundSimple(name, genOK, playOK) ==
    /\ audio' = Called(playSoundSimple(audio, name, genOK, playOK), "playSoundSimple",
                       name, genOK, playOK,
                       playSoundSimple(audio, name, genOK, playOK).ret)
    /\ AudioRest

StopSound(sourceId) ==
    /\ audio' = Called(stopSound(audio, sourceId), "stopSound", sourceId, TRUE, TRUE, 0)
    /\ AudioRest

StopAllSounds ==
    /\ audio' = Called(stopAllSounds(audio), "stopAllSounds", 0, TRUE, TRUE, 0)
    /\ AudioRest

AudioUpdate(stopped) ==
    /\ audio' = Called(audioUpdate(audio, stopped), "update", 0, TRUE, TRUE, 0)
    /\ AudioRest

InitAudio ==
    /\ ent = GameWorld
    /\ entities = <<1, 2>>
    /\ party = <<1, 2>>
    /\ last = InitOp
    /\ travel = Fresh(GameWorld)
    /\ frames = 0
    /\ cmds = 0
    /\ search = NoSearch
    /\ input = NoInput
    /\ voxel = NewVoxelModel
    /\ audio \in {NewAudioManager} \cup {afterPlays(k) : k \in StartPlays}

NextAudio ==
    /\ audio.ops < MaxAudioOps
    /\ \/ \E deviceOK \in BOOLEAN, n \in PreallocOutcomes : Initialize(deviceOK, n)
       \/ \E fileOK \in BOOLEAN : LoadSound("hit", fileOK)
       \/ \E name \in SoundNames, genOK \in BOOLEAN, playOK \in BOOLEAN :
              PlaySound(name, genOK, playOK)
       \/ \E name \in SoundNames, genOK \in BOOLEAN, playOK \in BOOLEAN :
              PlaySoundSimple(name, genOK, playOK)
       \/ \E sourceId \in Handles \cap ({0} \cup audio.issued) : StopSound(sourceId)
       \/ StopAllSounds
       \/ \E stopped \in SUBSET (Handles \cap SetOf(audio.m_activeSources)) :
              AudioUpdate(stopped)

SpecAudio == InitAudio /\ [][NextAudio]_vars

\* C19: the sources in use and the sources in the pool are never more than
\* MAX_SOURCES together.
C19_PoolBounded ==
    Len(audio.m_activeSources) + Len(audio.m_availableSources) <= MAX_SOURCES

\* The play of this step fails: the manager is not initialized, the sound is
\* not loaded, no source can be obtained (the pool is empty and the limit is
\* reached or alGenSources fails), or the start of the playback fails.
PlayFails ==
    \/ ~audio.m_initialized
    \/ audio'.arg \notin audio.m_soundBuffers
    \/ /\ audio.m_availableSources = <<>>
       /\ \/ Len(audio.m_activeSources) >= MAX_SOURCES
          \/ ~audio'.genOK
    \/ ~audio'.playOK

\* C20: a playSound or playSoundSimple that fails returns 0 and leaves the
\* set of active sources as it was; one that does not fail returns the
\* nonzero id of a source that is active.
C20_FailedPlayChangesNothing ==
    [][audio'.op \in {"playSound", "playSoundSimple"} =>
          IF PlayFails
          THEN /\ audio'.ret = 0
               /\ SetOf(audio'.m_activeSources) = SetOf(audio.m_activeSources)
          ELSE /\ audio'.ret # 0
               /\ audio'.ret \in SetOf(audio'.m_activeSources)]_vars

\* A play on a manager with sounds playing took a source from the pool,
\* failed to start it and returned 0.
C20_Witness ==
    /\ audio.op \in {"playSound", "playSoundSimple"}
    /\ audio.m_initialized /\ audio.arg \in audio.m_soundBuffers
    /\ ~audio.playOK /\ audio.ret = 0
    /\ Len(audio.m_activeSources) = 16
    /\ audio.m_availableSources # <<>>

\* ------------------------------------------------------------ SpecCollide
\* Player 1 walks among two idle registered neighbours: player 2 at (2,0,0)
\* and an entity without a party (3), which therefore never commands itself.
\* No target and no desired position of a frame lies on a neighbour's
\* centre.
MaxCollideFrames == 2
MaxCollideCmds == 1
CollideDts == {16, 100, 250, 500}
CollideStarts == {<<0, 0, 0>>, <<0, 0, 900>>, <<900, 0, 0>>}
CollideSeconds == {<<1600, 0, 950>>, <<2000, 0, 1800>>, <<1000, 0, 1500>>}
CollideTargets ==
    {<<2000, 0, 900>>, <<1050, 0, 0>>, <<3000, 0, 0>>, <<1500, 0, 500>>,
     <<950, 0, 0>>, <<-150, 0, 0>>}

CollideWorld(p, q) ==
    [e \in Ents |->
        IF e = 1 THEN Registered(NewEntity(p, DefaultSpeed, FALSE))
        ELSE IF e = 2 THEN Registered(NewEntity(<<2000, 0, 0>>, DefaultSpeed, FALSE))
        ELSE Registered(NewEntity(q, EnemySpeed, FALSE))]

InitCollide ==
    /\ \E p \in CollideStarts, q \in CollideSeconds : ent = CollideWorld(p, q)
    /\ entities = <<1, 2, 3>>
    /\ party = <<1, 2>>
    /\ last = InitOp
    /\ travel = Fresh(ent)
    /\ frames = 0
    /\ cmds = 0
    /\ audio = NewAudioManager
    /\ search = NoSearch
    /\ input = NoInput
    /\ voxel = NewVoxelModel

NextCollide ==
    \/ \E t \in CollideTargets : cmds < MaxCollideCmds /\ MoveTo(1, t)
    \/ \E dt \in CollideDts : frames < MaxCollideFrames /\ Update(1, dt, NoFlips)

SpecCollide == InitCollide /\ [][NextCollide]_vars

\* The active neighbours of e whose circle position p overlaps
\* (entity.cpp:62-75).
overlapped(w, reg, e, p) ==
    {o \in Ents : /\ o # e /\ w[o].active
                  /\ \E i \in 1..Len(reg) : reg[i] = o
                  /\ FLt(Length(VSub(w[o].position, p)), w[e].radius + w[o].radius)}

\* Position p is clear of neighbour o up to the tolerance.
ClearOf(w, e, o, p, tolerance) ==
    FGe(Length(VSub(w[o].position, p)), w[e].radius + w[o].radius - tolerance)

\* C21: the position resolveCollisions returns is at distance
\* >= radius + N.radius - 1e-3 from every active neighbour N whose circle the
\* desired position overlapped, for one neighbour or several in one frame.
\* (Checked for the desired position of every frame time a moving player's
\* next update can take; the fixed-point rounding is given a tenfold
\* tolerance.)
C21_ResolvedClear ==
    \A dt \in CollideDts :
        ent[1].isMoving /\ FGt(Length(VSub(ent[1].targetPosition, ent[1].position)),
                               ArriveEps)
        => LET desired == desiredPositionOf(ent, 1, dt)
               resolved == resolveCollisions(ent, entities, 1, desired)
           IN  \A o \in overlapped(ent, entities, 1, desired) :
                   ClearOf(ent, 1, o, resolved, 10)

\* Entity e overlaps no active registered neighbour at position p.
OverlapsNone(w, reg, e, p, tolerance) ==
    \A o \in Ents :
        (o # e /\ w[o].active /\ \E i \in 1..Len(reg) : reg[i] = o)
            => ClearOf(w, e, o, p, tolerance)

\* C22: if a Seeking entity overlaps no active neighbour before an update, the
\* seek part of that update does not leave it overlapping one, the branches
\* that snap it onto a target within 0.1 included.  (Checked for the seek
\* part of every frame time the player's next update can take; the result is
\* given a tenfold rounding tolerance.)
C22_SeekStaysClear ==
    \A dt \in CollideDts :
        (ent[1].isMoving /\ OverlapsNone(ent, entities, 1, ent[1].position, 0))
            => OverlapsNone(ent, entities, 1,
                            seekStep(ent, entities, 1, dt, "exact").position, 10)

\* No active registered neighbour of e is within collision or separation
\* range (1.2 * the sum of the radii) of position p.
OutOfRange(w, reg, e, p) ==
    \A o \in Ents :
        (o # e /\ w[o].active /\ \E i \in 1..Len(reg) : reg[i] = o)
            => FGt(Length(VSub(w[o].position, p)),
                   FMul(w[e].radius + w[o].radius, PreferredFactor))

\* The step is an update of player 1, Seeking with more than 0.1 to go and
\* with no neighbour in range of where it is, of the desired position of the
\* frame or of where the seek part puts it.
FreeSeekStep ==
    /\ last'.op = "update" /\ last'.who = 1
    /\ ent[1].isMoving
    /\ FGt(Length(VSub(ent[1].targetPosition, ent[1].position)), ArriveEps)
    /\ OutOfRange(ent, entities, 1, ent[1].position)
    /\ OutOfRange(ent, entities, 1, desiredPositionOf(ent, 1, last'.dt))
    /\ OutOfRange(ent, entities, 1,
                  seekStep(ent, entities, 1, last'.dt, "exact").position)

\* The point at the given distance from e's position on the straight line to
\* its target.
pointToward(w, e, distance) ==
    VAdd(w[e].position,
         ScaleTo(VSub(w[e].targetPosition, w[e].position), distance))

Min(a, b) == IF a <= b THEN a ELSE b

\* Positions p and q are equal up to the rounding of the fixed-point
\* arithmetic.
Near(p, q) == Length(VSub(p, q)) <= 3

\* C24 as stated: a Seeking entity with remaining distance r > 0.1 and no
\* active neighbour in collision or separation range moves along the straight
\* line toward targetPosition by exactly min(movementSpeed * dt, r).
C24_StepIsMin ==
    [][FreeSeekStep
          => Near(ent'[1].position,
                  pointToward(ent, 1,
                      Min(FMul(ent[1].movementSpeed, last'.dt),
                          Length(VSub(ent[1].targetPosition, ent[1].position)))))]_vars

\* C24 amended: the entity moves along the straight line toward targetPosition
\* by min(movementSpeed * dt, r), or by r, onto targetPosition, when less than
\* 0.1 would remain after that step; it never overshoots and its distance to
\* the target never increases.
C24_StepIsMinOrSnap ==
    [][FreeSeekStep
          => LET r == Length(VSub(ent[1].targetPosition, ent[1].position))
                 step == Min(FMul(ent[1].movementSpeed, last'.dt), r)
                 stepped == pointToward(ent, 1, step)
                 left == Length(VSub(ent[1].targetPosition, stepped))
             IN  /\ IF left < ArriveEps
                    THEN ent'[1].position = ent[1].targetPosition
                    ELSE Near(ent'[1].position, stepped)
                 /\ Length(VSub(ent[1].targetPosition, ent'[1].position)) <= r
                 /\ Length(VSub(ent'[1].position, ent[1].position)) <= r + 3]_vars

\* Player 1, 0.15 from its target and far from both neighbours, has taken one
\* step of 0.08 and been put on the target, 0.15 from where it started.
C24_Witness ==
    /\ last.op = "update" /\ last.who = 1 /\ last.dt = 16
    /\ travel[1].updates = 1
    /\ Length(VSub(ent[1].targetPosition, travel[1].from)) = 150
    /\ ent[1].position = ent[1].targetPosition
    /\ OutOfRange(ent, entities, 1, travel[1].from)
    /\ OutOfRange(ent, entities, 1, ent[1].position)

\* The step is an update of the lone entity 1, Seeking with at most 0.1 to
\* go.
NearTargetStep ==
    /\ last'.op = "update" /\ last'.who = 1
    /\ ent[1].isMoving
    /\ Length(VSub(ent[1].targetPosition, ent[1].position)) <= ArriveEps

\* C25: when the remaining distance is <= 0.1 at the start of an update (in
\* particular after moveTo(current position)) the update sets isMoving false
\* and, with no neighbour in separation range, leaves position exactly equal
\* to targetPosition, whatever the frame time.
C25_SnapOnNearTarget ==
    [][NearTargetStep
          => /\ ~ent'[1].isMoving
             /\ ent'[1].targetPosition = ent[1].targetPosition
             /\ OutOfRange(ent, entities, 1, ent[1].targetPosition)
                    => ent'[1].position = ent[1].targetPosition]_vars

\* The entity, sent 0.05 away from where it had walked to, has been put on
\* that target by its first update, one of frame time zero.
C25_Witness ==
    /\ last.op = "update" /\ last.who = 1 /\ last.dt = 0
    /\ travel[1].updates = 1
    /\ travel[1].from # <<0, 0, 0>>
    /\ Length(VSub(ent[1].targetPosition, travel[1].from)) = 50
    /\ ent[1].position = ent[1].targetPosition
    /\ ~ent[1].isMoving

\* The active registered neighbours of e at a distance d from it with
\* 0.001 < d < 1.2 * (sum of radii), in world w.
inSeparationRange(w, reg, e) ==
    {o \in Ents : /\ o # e /\ w[o].active
                  /\ \E i \in 1..Len(reg) : reg[i] = o
                  /\ FGt(Distance(w, e, o), CoincideEps)
                  /\ FLt(Distance(w, e, o),
                         FMul(w[e].radius + w[o].radius, PreferredFactor))}

\* Where C26 puts e, placed as in world w: directly away from its one close
\* neighbour o by 2.0 * dt * (1.2 * sum - d) / (1.2 * sum).
pushedAway(w, e, o, deltaTime) ==
    LET reach == FMul(w[e].radius + w[o].radius, PreferredFactor)
        d == Distance(w, e, o)
        by == FMul(FMul(SeparationSpeed, deltaTime), FDiv(reach - d, reach))
    IN  VAdd(w[e].position,
             ScaleTo(VSub(w[e].position, w[o].position), by))

\* The world in which player 1's update applies its separation forces: the
\* one its seek part leaves.
afterSeek(deltaTime) ==
    [ent EXCEPT ![1] = seekStep(ent, entities, 1, deltaTime, "exact")]

\* C26: on every update, Idle or Seeking, an entity with exactly one active
\* neighbour at distance d, 0.001 < d < 1.2 * (sum of radii), is displaced
\* directly away from it by 2.0 * dt * (1.2 * sum - d) / (1.2 * sum); with no
\* active neighbour closer than 1.2 * sum it is not displaced by separation.
C26_SeparationBothStates ==
    [][(last'.op = "update" /\ last'.who = 1)
          => LET w1 == afterSeek(last'.dt)
                 close == inSeparationRange(w1, entities, 1)
             IN  /\ \A o \in close :
                        close = {o}
                            => Near(ent'[1].position, pushedAway(w1, 1, o, last'.dt))
                 /\ OutOfRange(w1, entities, 1, w1[1].position)
                        => ent'[1].position = w1[1].position]_vars

\* Player 1, Idle and never sent anywhere, has been pushed away from its one
\* close neighbour by an update.
C26_Witness ==
    /\ last.op = "update" /\ last.who = 1 /\ cmds = 0
    /\ ~ent[1].isMoving
    /\ ent[1].position # travel[1].from
    /\ Distance(ent, 1, 3) > Length(VSub(travel[1].from, ent[3].position))

\* No entry of the sequence occurs in it twice.
NoRepeats(seq) == \A i, j \in 1..Len(seq) : seq[i] = seq[j] => i = j

\* C28: after any sequence of playSound, playSoundSimple, stopSound (twice on
\* one id, or on an id update() has already reclaimed, included),
\* stopAllSounds and update, no source id occurs twice in the available pool
\* or in both the active list and the pool, and no id is handed out by a
\* play call while it is still active (it would be twice in the active
\* list).
C28_SourcesExclusive ==
    /\ NoRepeats(audio.m_availableSources)
    /\ NoRepeats(audio.m_activeSources)
    /\ SetOf(audio.m_availableSources) \cap SetOf(audio.m_activeSources) = {}

\* --------------------------------------------------------- steering side
\* Neighbour o triggers avoidance when enemy e steers toward the member pc of
\* its party (entity.cpp:154-182): o is active, registered, farther than 0.01
\* and either intersects the circle predicted half a second ahead or is
\* within the avoidance radius.
triggersAvoidance(w, reg, e, pc, o) ==
    LET seekForce == Normalize(VSub(w[pc].position, w[e].position))
        futurePos == VAdd(w[e].position,
                          VScale(VScale(seekForce, w[e].movementSpeed), LookAhead))
        avoidanceRadius == Max(MinAvoidRadius,
                               FMul(w[e].movementSpeed, AvoidSpeedFactor))
    IN  /\ w[e].entityManager
        /\ o # e /\ w[o].active /\ \E i \in 1..Len(reg) : reg[i] = o
        /\ ~FLt(Length(VSub(w[pc].position, w[e].position)), SteerEps)
        /\ FGt(Distance(w, e, o), SteerEps)
        /\ \/ FLt(Length(VSub(w[o].position, futurePos)),
                  w[e].radius + w[o].radius + SteerBuffer)
           \/ FLt(Distance(w, e, o), avoidanceRadius)

\* The clearance from obstacle o of the probe point beside e in direction
\* side (entity.cpp:197-201).
clearanceBeside(w, e, o, side) ==
    Length(VSub(w[o].position,
                VAdd(w[e].position,
                     VScale(side, w[e].radius + w[o].radius + SteerBuffer))))

\* The steering side calculateSteeringForce takes for obstacle o when the
\* comparison rightClearance > leftClearance comes out as rightWins.
sideTaken(w, e, o, rightWins) ==
    perpendicularOf(w, e, o,
                    Cross(Normalize(VSub(w[o].position, w[e].position)), Up3),
                    w[e].radius + w[o].radius + SteerBuffer, rightWins)

\* cross(toObstacle, up), normalized.
leftOf(w, e, o) ==
    Normalize(Cross(Normalize(VSub(w[o].position, w[e].position)), Up3))

ChaseStarts == {<<0, 0, 0>>, <<7000, 0, 0>>, <<7900, 0, 0>>, <<7000, 0, 2000>>}
ChaseLiveDts == {100, 250, 500, 700}

InitChaseLive ==
    /\ \E p \in ChaseStarts :
           ent = [ChaseWorld EXCEPT ![3] = Registered(NewEntity(p, EnemySpeed, TRUE))]
    /\ entities = <<1, 3>>
    /\ party = <<1>>
    /\ last = InitOp
    /\ travel = Fresh(ent)
    /\ frames = 0
    /\ cmds = 0
    /\ audio = NewAudioManager
    /\ search = NoSearch
    /\ input = NoInput
    /\ voxel = NewVoxelModel

\* entityManager->updateAll(deltaTime); last records the command E's update
\* issued in it (P, first in the registry, is updated before E).
ChaseFrame(deltaTime, flips) ==
    /\ ent' = updateAll(ent, entities, party, deltaTime, flips)
    /\ last' = [OpOf("updateAll", 3, deltaTime,
                     chaseCommand(worldAt(ent, entities, party, 1, 3, deltaTime),
                                  entities, party, 3, deltaTime, flips))
                   EXCEPT !.rep = 1, !.stops = 0]
    /\ UNCHANGED <<input, voxel, audio, search, entities, party, travel, frames, cmds>>

NextChaseLive ==
    \E dt \in ChaseLiveDts, flips \in FlipChoices :
        /\ (last.op = "init" \/ dt = last.dt)
        /\ ChaseFrame(dt, flips)

SpecChaseLive == InitChaseLive /\ [][NextChaseLive]_vars

\* E is within [0.7 * S, S] of P, S = its stopping distance.
InBand ==
    /\ ~FGt(Distance(ent, 3, 1), desiredDistance(ent, 3, 1))
    /\ ~FLt(Distance(ent, 3, 1), backAwayLimit(ent, 3, 1))

\* Another frame at the same frame time moves nobody, whatever the rounding.
\* E's command depends on the positions only and overwrites its target and
\* isMoving, so every later frame then repeats this one.
ChaseFrozen ==
    /\ last.op = "updateAll"
    /\ \A f \in FlipChoices :
           Positions(updateAll(ent, entities, party, last.dt, f)) = Positions(ent)

\* C23: for one stationary active target, no other neighbours and any fixed
\* frame time, an enemy that starts farther than its stopping distance S
\* eventually performs an update in which it calls stop(), and from then on
\* its distance to the target stays within [0.7 * S, S] with isMoving false.
\* (Stated so that a finite run refutes it: the chase never comes to a
\* standstill in which E's update does not call stop() or E is outside
\* [0.7 * S, S]; in such a standstill every later frame repeats the same
\* command for ever.)
C23_ChaseComesToRest ==
    ChaseFrozen
        => /\ \A f \in FlipChoices :
                  chaseCommand(ent, entities, party, 3, last.dt, f).cmd = "stop"
           /\ InBand

\* ------------------------------------------------------------- SpecInput
\* Game::handleInput (game.cpp:111-161) with InputManager::update
\* (input.cpp:16-35) inlined.  buttonDown is what glfwGetMouseButton reports
\* for the right button, tab and q are isTabPressed() and isQPressed() of this
\* frame, worldPos is the cursor's point on the ground.  The one enemy object
\* of the model is spawned by the first Q.

\* input.cpp:16-25: the button state and its edges.
inputUpdate(in, buttonDown) ==
    [in EXCEPT !.prevRightMouseDown = in.rightMouseDown,
               !.rightMouseDown = buttonDown,
               !.rightMousePressed = buttonDown /\ ~in.rightMouseDown,
               !.rightMouseReleased = ~buttonDown /\ in.rightMouseDown]

\* game.cpp:115-120
switchActive(in, pty, tab) ==
    IF tab THEN [in EXCEPT !.activePlayerIndex = (in.activePlayerIndex + 1) % Len(pty)]
    ELSE in

\* game.cpp:142
activePlayerOf(in, pty) == pty[in.activePlayerIndex + 1]

\* game.cpp:123-139: the enemy spawned by Q, at one of the positions the
\* random generator can give.
SpawnAt == {<<5000, 0, 5000>>, <<-3000, 0, 1000>>}

spawnEnemy(w, q, p) ==
    IF q THEN [w EXCEPT ![3] = Registered(NewEntity(p, EnemySpeed, TRUE))] ELSE w

\* game.cpp:144-160: moveTo while the button is down, stop() on release, both
\* on the active player only.
commandActive(w, in, pty, worldPos) ==
    LET activePlayer == activePlayerOf(in, pty)
    IN  IF activePlayer = Null THEN w
        ELSE IF in.rightMouseDown
        THEN [w EXCEPT ![activePlayer] = moveTo(@, worldPos)]
        ELSE IF in.rightMouseReleased
        THEN [w EXCEPT ![activePlayer] = stop(@)]
        ELSE w

\* The party members sent somewhere since the button went down.
movedBy(in, pty) ==
    LET activePlayer == activePlayerOf(in, pty)
        sent == IF in.rightMouseDown /\ activePlayer # Null THEN {activePlayer} ELSE {}
    IN  IF in.rightMousePressed THEN sent ELSE in.moved \cup sent

HandleInput(buttonDown, tab, q, worldPos, spawn) ==
    LET in1 == switchActive(inputUpdate(input, buttonDown), party, tab)
        activePlayer == activePlayerOf(in1, party)
    IN  /\ input' = [in1 EXCEPT !.moved = movedBy(in1, party)]
        /\ ent' = commandActive(spawnEnemy(ent, q, spawn), in1, party, worldPos)
        /\ entities' = IF q THEN addEntity(entities, 3) ELSE entities
        /\ travel' = IF in1.rightMouseDown /\ activePlayer # Null
                     THEN [travel EXCEPT ![activePlayer] =
                              [from |-> ent[activePlayer].position, budget |-> 0,
                               updates |-> 0]]
                     ELSE travel
        /\ last' = Op("handleInput", activePlayer, 0, Null, "none")
        /\ cmds' = cmds + 1
        /\ UNCHANGED <<voxel, audio, search, party, frames>>

MaxInputCalls == 3
MaxInputFrames == 1
InputTargets == {<<1000, 0, 0>>, <<3000, 0, 1000>>}

NextInput ==
    \/ \E buttonDown, tab, q \in BOOLEAN, worldPos \in InputTargets, spawn \in SpawnAt :
           /\ cmds < MaxInputCalls
           /\ q => ~InRegistry(3)
           /\ ~q => spawn = <<5000, 0, 5000>>
           /\ ~buttonDown => worldPos = <<1000, 0, 0>>
           /\ HandleInput(buttonDown, tab, q, worldPos, spawn)
    \/ \E dt \in DtSet, flips \in FlipChoices :
           frames < MaxInputFrames /\ UpdateAll(dt, flips)

SpecInput == Init /\ [][NextInput]_vars

\* C29: whenever Game::handleInput sees the right mouse button released,
\* every party member that received a moveTo during that hold has
\* isMoving == false after the call, also when Tab switched the active party
\* member while the button was held.
C29_ReleaseStopsMoved ==
    (last.op = "handleInput" /\ input.rightMouseReleased)
        => \A e \in input.moved : ~ent[e].isMoving

\* ---------------------------------------------------------------------
\* VoxelModel (voxel_model.cpp).  A voxel is the alpha of its colour, a
\* position an integer triple; a vertex keeps its corner and its normal.
\* ---------------------------------------------------------------------

\* Voxel::isVisible (voxel_model.h:18).
isVisible(alpha) == alpha > 0

\* VoxelModel::getVoxel: the stored voxel, else the empty voxel Voxel().
getVoxel(v, pos) ==
    IF pos \in DOMAIN v.voxels THEN v.voxels[pos] ELSE 0

\* VoxelModel::removeVoxel: voxels.erase(pos).
removeVoxel(v, pos) ==
    LET keep == DOMAIN v.voxels \ {pos}
    IN  [v EXCEPT !.voxels = IF keep = {} THEN <<>>
                             ELSE [p \in keep |-> v.voxels[p]]]

\* VoxelModel::setVoxel: a visible voxel is stored, any other removes.
setVoxel(v, pos, alpha) ==
    IF isVisible(alpha)
    THEN [v EXCEPT !.voxels = [p \in DOMAIN v.voxels \cup {pos} |->
                                   IF p = pos THEN alpha ELSE v.voxels[p]]]
    ELSE removeVoxel(v, pos)

\* VoxelModel::clearMesh.
clearMesh(v) ==
    [v EXCEPT !.vertices = <<>>, !.indices = <<>>, !.meshGenerated = FALSE]

\* VoxelModel::clear.
clear(v) == clearMesh([v EXCEPT !.voxels = <<>>])

isVoxelSolid_alwaysEmpty(v, pos) == FALSE

\* VoxelModel::isVoxelSolid.
isVoxelSolid(v, pos) == isVisible(getVoxel(v, pos))

\* The corners v0..v3 of addQuad for a unit quad (size (1, 1)).
quadCorners(pos, normal) ==
    LET x == pos[1]
        y == pos[2]
        z == pos[3]
    IN  IF normal[1] # 0
        THEN LET fx == x + (IF normal[1] > 0 THEN 1 ELSE 0)
             IN  << <<fx, y, z>>, <<fx, y + 1, z>>,
                    <<fx, y + 1, z + 1>>, <<fx, y, z + 1>> >>
        ELSE IF normal[2] # 0
        THEN LET fy == y + (IF normal[2] > 0 THEN 1 ELSE 0)
             IN  << <<x, fy, z>>, <<x, fy, z + 1>>,
                    <<x + 1, fy, z + 1>>, <<x + 1, fy, z>> >>
        ELSE LET fz == z + (IF normal[3] > 0 THEN 1 ELSE 0)
             IN  << <<x, y, fz>>, <<x + 1, y, fz>>,
                    <<x + 1, y + 1, fz>>, <<x, y + 1, fz>> >>

\* VoxelModel::addQuad: four vertices, then the six indices of two
\* triangles, wound by the sign of the normal.
addQuad(v, pos, normal) ==
    LET c == quadCorners(pos, normal)
        baseIndex == Len(v.vertices)
        front == normal[1] > 0 \/ normal[2] > 0 \/ normal[3] > 0
        order == IF front THEN <<0, 1, 2, 0, 2, 3>> ELSE <<0, 2, 1, 0, 3, 2>>
    IN  [v EXCEPT
            !.vertices = v.vertices \o
                [i \in 1..4 |-> [position |-> c[i], normal |-> normal]],
            !.indices = v.indices \o [i \in 1..6 |-> baseIndex + order[i]]]

\* The six faces in the order generateMesh tests them.
Faces ==
    << <<1, 0, 0>>, <<-1, 0, 0>>, <<0, 1, 0>>,
       <<0, -1, 0>>, <<0, 0, 1>>, <<0, 0, -1>> >>

neighbourCell(pos, normal) ==
    <<pos[1] + normal[1], pos[2] + normal[2], pos[3] + normal[3]>>

\* The body of generateMesh's loop for one voxel, from face i on.
RECURSIVE meshFaces(_, _, _)
meshFaces(v, pos, i) ==
    IF i > Len(Faces) THEN v
    ELSE meshFaces(IF ~isVoxelSolid(v, neighbourCell(pos, Faces[i]))
                   THEN addQuad(v, pos, Faces[i]) ELSE v,
                   pos, i + 1)

\* generateMesh's loop over the map, in the iteration order given.
RECURSIVE meshVoxels(_, _, _)
meshVoxels(v, order, k) ==
    IF k > Len(order) THEN v
    ELSE meshVoxels(IF isVisible(v.voxels[order[k]])
                    THEN meshFaces(v, order[k], 1) ELSE v,
                    order, k + 1)

\* VoxelModel::generateMesh; order is the iteration order of the
\* unordered_map, which the standard leaves open.
generateMesh(v, order) ==
    LET cleared == clearMesh(v)
    IN  IF DOMAIN v.voxels = {} THEN cleared
        ELSE [meshVoxels(cleared, order, 1) EXCEPT !.meshGenerated = TRUE]

\* Getters (voxel_model.h:92-95).
getVertexCount(v) == Len(v.vertices)
getTriangleCount(v) == Len(v.indices) \div 3
hasMesh(v) == v.vertices # <<>>

\* The orders in which a set can be iterated.
RECURSIVE Orders(_)
Orders(S) ==
    IF S = {} THEN {<<>>}
    ELSE UNION {{<<p>> \o rest : rest \in Orders(S \ {p})} : p \in S}

called(v, op, arg) == [v EXCEPT !.op = op, !.arg = arg, !.ops = v.ops + 1]

SetVoxel(pos, alpha) ==
    /\ voxel' = called(setVoxel(voxel, pos, alpha), "setVoxel", <<pos, alpha>>)
    /\ UNCHANGED <<ent, entities, party, last, travel, frames, cmds,
                   audio, search, input>>

RemoveVoxel(pos) ==
    /\ voxel' = called(removeVoxel(voxel, pos), "removeVoxel", <<pos>>)
    /\ UNCHANGED <<ent, entities, party, last, travel, frames, cmds,
                   audio, search, input>>

Clear ==
    /\ voxel' = called(clear(voxel), "clear", <<>>)
    /\ UNCHANGED <<ent, entities, party, last, travel, frames, cmds,
                   audio, search, input>>

GenerateMesh(order) ==
    /\ voxel' = called(generateMesh(voxel, order), "generateMesh", <<>>)
    /\ UNCHANGED <<ent, entities, party, last, travel, frames, cmds,
                   audio, search, input>>

MaxVoxelOps == 4
VoxelCells == {<<0, 0, 0>>, <<1, 0, 0>>, <<0, 1, 0>>, <<0, 0, -1>>}
Alphas == {0, 1, 255}

NextVoxel ==
    /\ voxel.ops < MaxVoxelOps
    /\ \/ \E pos \in VoxelCells, alpha \in Alphas : SetVoxel(pos, alpha)
       \/ \E pos \in VoxelCells : RemoveVoxel(pos)
       \/ Clear
       \/ \E order \in Orders(DOMAIN voxel.voxels) : GenerateMesh(order)

SpecVoxel == Init /\ [][NextVoxel]_vars

\* The (stored voxel, axis direction) pairs whose adjacent cell holds no
\* visible voxel.
exposedFaces(v) ==
    {f \in (DOMAIN v.voxels) \X (1..6) :
        LET n == neighbourCell(f[1], Faces[f[2]])
        IN  ~(n \in DOMAIN v.voxels /\ v.voxels[n] > 0)}

====
